---- MODULE Spec2Model ----
(***************************************************************************)
(* Model of the browserAnnotations overlay engine.                         *)
(*                                                                         *)
(*   Spec          the single-canvas coordinator                           *)
(*                 (src/annotations/video-annotator.js) with its           *)
(*                 visualizers (src/annotations/vizualizers)               *)
(*   SpecRenderers the render methods of the annotation-list renderers     *)
(*                 (src/annotations/renderers)                             *)
(*   SpecArchive   the multi-canvas coordinator                            *)
(*                 (src/Archive/annotations/video-annotator.js) with the   *)
(*                 manifest and BaseRenderer it drives                     *)
(*   SpecManifest  AnnotationManifest and Annotation by themselves         *)
(*                 (src/annotations/annotation-manifest.js)                *)
(*   SpecTrajectory TrajectoryRenderer.render and the interpolation        *)
(*                 helpers of BaseRenderer                                 *)
(*   SpecInertial  the InertialBar visualizer                              *)
(*                 (src/annotations/vizualizers/inertial-bar.js)           *)
(*   SpecStyle     style resolution in the detection, trajectory and dsf   *)
(*                 renderers                                               *)
(*   SpecPass      one render pass of the multi-canvas coordinator over    *)
(*                 the detection and trajectory renderers                  *)
(*   SpecSync      the single canvas across timeupdate and resize          *)
(*   SpecVisibility show, hide and the per-renderer switches of the        *)
(*                 multi-canvas coordinator                                *)
(*   SpecSizing    the size of a BaseRenderer's canvas                     *)
(*   SpecBoxes     the outward-bounding-boxes visualizer and renderer      *)
(*                 (src/unnamed/part_012, hello-renderer.js)               *)
(*   SpecRecorder  VideoRecorder with its MediaRecorders and timers        *)
(*                 (src/video-recorder.js)                                 *)
(***************************************************************************)
EXTENDS Integers, Sequences, FiniteSets, TLC

\* ------------------------------------------------------------------ bounds
MaxTime == 1          \* playback times reported by the video are 0..MaxTime
MaxCats == 2          \* longest category list handed to the constructor

Times == 0..MaxTime

Min(S) == CHOOSE x \in S : \A y \in S : x <= y
Indices(s) == [i \in 1..Len(s) |-> i]

\* ------------------------------------------------------- the environment
\* Natural pixel sizes (video.videoWidth, video.videoHeight) a source can
\* have, <<0,0>> before its metadata is loaded, and the on-screen sizes of
\* the <video> element (smaller than the natural size).
NoSize == <<0, 0>>
NaturalSizes == {<<4, 2>>}
DisplaySizes == {<<2, 1>>}
\* An HTML canvas starts 300x150; the model scales that down to 3x1.
DefaultCanvasSize == <<3, 1>>

\* The metadata record handed to the coordinator: which of the fields the
\* visualizers read are present.
MetadataSet == [kind : {"object"}, sensorMetaData : {TRUE},
                laneCalibrationParams : {TRUE}, carBoxTrackerList : {TRUE}]
\* A string passed where a metadata object is expected: every optional
\* property read of it yields undefined.
StringArg == [kind |-> "string", sensorMetaData |-> FALSE,
              laneCalibrationParams |-> FALSE, carBoxTrackerList |-> FALSE]

\* ------------------------------------------------------------- registry
Registered == {"debug-cross", "dsf", "header-banner", "inertial-bar",
               "outward-bounding-boxes"}

VISUALIZER_MAP == [c \in Registered |->
    CASE c = "debug-cross" -> "CrossVisualizer"
      [] c = "dsf" -> "DSFVisualizer"
      [] c = "header-banner" -> "HeaderBannerVisualizer"
      [] c = "inertial-bar" -> "InertialBarVisualizer"
      [] c = "outward-bounding-boxes" -> "OutwardBoundingBoxesVisualizer"]

\* VISUALIZER_MAP is an object literal, so a lookup by a name it does not
\* define falls through to Object.prototype: "constructor" is the Object
\* function, "toString" a built-in method that is no constructor.
ObjectPrototype == [p \in {"constructor", "toString"} |->
    IF p = "constructor" THEN "Object" ELSE "builtin-method"]

\* VISUALIZER_MAP[category]
MapGet(category) ==
    IF category \in DOMAIN VISUALIZER_MAP THEN VISUALIZER_MAP[category]
    ELSE IF category \in DOMAIN ObjectPrototype THEN ObjectPrototype[category]
    ELSE "undefined"

\* The category names the model hands to the constructor.
InputCategories == {"debug-cross", "dsf", "no-such-category", "constructor",
                    "toString"}
CategoryLists == UNION {[1..n -> InputCategories] : n \in 0..MaxCats}

\* ------------------------------------------------------------- state
VARIABLES
    pc,                   \* "new", "live" (constructed) or "failed" (threw)
    ctx,                  \* this.ctx: "none" before construction, "2d", "null"
    visualizerCategories, \* this.visualizerCategories
    metadata,             \* this.metadata
    visualizers,          \* this.visualizers, in insertion order
    listeners,            \* what the constructor subscribed to on the video
    isVisible,            \* this.isVisible
    lastRenderTime,       \* this._lastRenderTime (the dedup watermark)
    currentTime,          \* video.currentTime
    natural,              \* <<video.videoWidth, video.videoHeight>>
    displayed,            \* on-screen size of the <video> element
    canvasSize,           \* <<canvas.width, canvas.height>>
    resized,              \* history: a geometry-change notification was handled
    rendered,             \* history: the times a render pass has happened for
    lastPassTime,         \* history: the time of the latest render pass, or -1
    last                  \* history: what the latest timeupdate notification did

annotatorVars ==
    <<pc, ctx, visualizerCategories, metadata, visualizers, listeners,
      isVisible, lastRenderTime, currentTime, natural, displayed,
      canvasSize, resized, rendered, lastPassTime, last>>

\* One annotation-list renderer and its latest render call (SpecRenderers).
VARIABLES
    rCategory,            \* the renderer's static category
    rAnnotations,         \* this.annotations
    rTimeMs,              \* currentTimeMs of the latest render call, or -1
    rDraws                \* the draw calls that render call issued, in order

rendererVars == <<rCategory, rAnnotations, rTimeMs, rDraws>>

\* The multi-canvas coordinator (SpecArchive).
VARIABLES
    manifest,             \* this.manifest.items as an ordered list of
                          \* [key, anns] entries, or "null" before any
    renderers,            \* this.renderers: category -> renderer state
    handedOver            \* history: the items the manifest object now held
                          \* had when the caller passed it to loadManifest,
                          \* "none" while the coordinator holds no object of
                          \* the caller's

archiveVars == <<manifest, renderers, handedOver>>

\* One AnnotationManifest used on its own (SpecManifest).
VARIABLES
    mfItems,              \* this.items as an ordered list of [key, anns]
    mfLast                \* history: the latest call, its argument and outcome

manifestVars == <<mfItems, mfLast>>

\* One trajectory annotation and its TrajectoryRenderer (SpecTrajectory).
VARIABLES
    tjPoints,             \* annotation.data.points
    tjInterpolation,      \* annotation.data.interpolation
    tjTimeMs,             \* currentTimeMs of the latest render call, or -2
    tjFrame               \* what that call computed and stroked

trajectoryVars == <<tjPoints, tjInterpolation, tjTimeMs, tjFrame>>

VARIABLES
    ibMetadata,           \* the metadata the InertialBar was constructed from
    ibData,               \* InertialBar.data
    ibVisible,            \* InertialBar._visible
    ibLast                \* the latest display call and what it drew

inertialVars == <<ibMetadata, ibData, ibVisible, ibLast>>

VARIABLES
    stRenderer,           \* which renderer's drawing method is exercised
    stOptions,            \* renderer.options
    stStyle,              \* annotation.style
    stDrawn               \* the values the drawing method put on the context

styleVars == <<stRenderer, stOptions, stStyle, stDrawn>>

VARIABLES
    psAnnotations,        \* renderer category -> renderer._annotations
    psLastRenderTime,     \* renderer category -> renderer._lastRenderTime
    psCanvas,             \* renderer category -> annotations on its canvas
    psLast                \* the latest coordinator render() call

passVars == <<psAnnotations, psLastRenderTime, psCanvas, psLast>>

drawingVars == <<inertialVars, styleVars, passVars>>

\* The single canvas of the current coordinator across resizes (SpecSync).
VARIABLES
    syVisualizers,        \* this.visualizers
    syVisible,            \* this.isVisible
    syLastRenderTime,     \* this._lastRenderTime
    syCurrentTime,        \* video.currentTime
    syBitmap,             \* what the canvas bitmap shows
    syLast                \* the latest notification handled

syncVars == <<syVisualizers, syVisible, syLastRenderTime, syCurrentTime,
              syBitmap, syLast>>

\* Show, hide, enable and disable in the multi-canvas coordinator
\* (SpecVisibility).
VARIABLES
    vzVisible,            \* annotator.isVisible
    vzRenderers,          \* this.renderers: category -> renderer state
    vzDisabled,           \* history: categories the host disabled with
                          \* disableRenderer and has not enabled since
    vzLast                \* the latest call and what it did

visibilityVars == <<vzVisible, vzRenderers, vzDisabled, vzLast>>

\* One BaseRenderer's own canvas (SpecSizing).
VARIABLES
    szNatural,            \* <<video.videoWidth, video.videoHeight>>
    szDisplayed,          \* size of video.getBoundingClientRect()
    szCanvas,             \* <<canvas.width, canvas.height>>
    szLast                \* the latest call on the renderer

sizingVars == <<szNatural, szDisplayed, szCanvas, szLast>>

\* The two drawers of outward bounding boxes (SpecBoxes).
VARIABLES
    bxMetadata,           \* the video session metadata
    bxVisualizer,         \* the OutwardBoundingBoxesVisualizer built from it
    bxAnnotations,        \* the annotations the extractor made of it
    bxLast                \* the latest call and what it drew

boxesVars == <<bxMetadata, bxVisualizer, bxAnnotations, bxLast>>

\* A VideoRecorder, its MediaRecorders and its timers (SpecRecorder).
VARIABLES
    rcIsRecording,        \* this.isRecording
    rcMediaRecorder,      \* this.mediaRecorder: a session number, 0 for null
    rcRecordedChunks,     \* this.recordedChunks: the recorder of each chunk
    rcRecorders,          \* every MediaRecorder created: its state and onstop
    rcTimers,             \* the sessions whose auto-stop timer is pending
    rcCancelled,          \* the sessions ended by cancelRecording()
    rcDownloads,          \* the blobs downloaded and given to onRecordingStop
    rcLast                \* the latest call or event

recorderVars == <<rcIsRecording, rcMediaRecorder, rcRecordedChunks,
                  rcRecorders, rcTimers, rcCancelled, rcDownloads, rcLast>>

moreVars == <<syncVars, visibilityVars, sizingVars, boxesVars, recorderVars>>
besidesSync == <<visibilityVars, sizingVars, boxesVars, recorderVars>>
besidesVisibility == <<syncVars, sizingVars, boxesVars, recorderVars>>
besidesSizing == <<syncVars, visibilityVars, boxesVars, recorderVars>>
besidesBoxes == <<syncVars, visibilityVars, sizingVars, recorderVars>>
besidesRecorder == <<syncVars, visibilityVars, sizingVars, boxesVars>>

vars == <<annotatorVars, rendererVars, archiveVars, manifestVars,
          trajectoryVars, drawingVars, moreVars>>

\* ------------------------------------------------------- visualizers
\* extractData(metadata) of each visualizer class; "null" is JavaScript null.
ExtractData(cls, m) ==
    CASE cls = "CrossVisualizer" -> "cross"
      [] cls = "DSFVisualizer" ->
            IF m.laneCalibrationParams THEN "vanishingTriangle" ELSE "null"
      [] cls = "HeaderBannerVisualizer" -> "headerBannerData"
      [] cls = "InertialBarVisualizer" ->
            IF m.sensorMetaData THEN "inertialBarData" ELSE "null"
      [] cls = "OutwardBoundingBoxesVisualizer" ->
            IF m.carBoxTrackerList THEN "detectionsByTimestamp" ELSE "null"

\* BaseVisualizer's constructor takes (metadata) and keeps its FIRST argument.
BaseVisualizer(cls, firstArg) ==
    [cls |-> cls, metadata |-> firstArg, data |-> ExtractData(cls, firstArg),
     visible |-> TRUE]

\* new VisualizerClass(metadata). DSFVisualizer and
\* OutwardBoundingBoxesVisualizer call super(<name>, metadata), so the base
\* constructor receives the name string as its metadata.
NewVisualizer(cls, m) ==
    IF cls \in {"DSFVisualizer", "OutwardBoundingBoxesVisualizer"}
    THEN BaseVisualizer(cls, StringArg)
    ELSE BaseVisualizer(cls, m)

\* new Object(metadata) returns the metadata object itself: an entry of
\* this.visualizers that has no display method.
PlainObject(m) == [cls |-> "Object", metadata |-> m, data |-> "metadata",
                   visible |-> TRUE]

IsVisualizer(v) == v.cls # "Object"

\* BaseVisualizer.isValid
isValid(v) == v.data # "null"

\* A display guard that forgets the visibility flag.
displayDrawsHidden(v) == isValid(v)

\* BaseVisualizer.display's guard: does display reach _draw?
displayDraws(v) == isValid(v) /\ v.visible

\* _initializeVisualizers: the visualizers pushed for a category list, and
\* whether a "new" in the loop threw (which ends the loop and the constructor).
RECURSIVE initializeVisualizers(_, _, _)
initializeVisualizers(cats, m, acc) ==
    IF cats = <<>> THEN [list |-> acc, threw |-> FALSE]
    ELSE LET VisualizerClass == MapGet(Head(cats)) IN
         CASE VisualizerClass = "undefined" ->
                initializeVisualizers(Tail(cats), m, acc)
           [] VisualizerClass = "builtin-method" ->
                [list |-> acc, threw |-> TRUE]
           [] VisualizerClass = "Object" ->
                initializeVisualizers(Tail(cats), m, Append(acc, PlainObject(m)))
           [] OTHER ->
                initializeVisualizers(Tail(cats), m,
                    Append(acc, NewVisualizer(VisualizerClass, m)))

AllListeners == {"timeupdate", "resize", "loadedmetadata"}

\* A constructor that subscribes to the video before it checks the context.
ConstructorSubscribesFirst(ctxOK, m, cats) ==
    LET r == initializeVisualizers(cats, m, <<>>) IN
    IF ~ctxOK
    THEN [threw |-> TRUE, visualizers |-> <<>>, listeners |-> AllListeners]
    ELSE IF r.threw
         THEN [threw |-> TRUE, visualizers |-> r.list, listeners |-> {}]
         ELSE [threw |-> FALSE, visualizers |-> r.list,
               listeners |-> AllListeners]

\* The constructor, in the order of its statements: the context check, the
\* fields, _initializeVisualizers, _setupEventListeners.
Constructor(ctxOK, m, cats) ==
    IF ~ctxOK
    THEN [threw |-> TRUE, visualizers |-> <<>>, listeners |-> {}]
    ELSE LET r == initializeVisualizers(cats, m, <<>>) IN
         IF r.threw
         THEN [threw |-> TRUE, visualizers |-> r.list, listeners |-> {}]
         ELSE [threw |-> FALSE, visualizers |-> r.list,
               listeners |-> AllListeners]

\* ------------------------------------------------------------ rendering
\* BaseVisualizer.display(ctx, epochTime, videoRect) on a visualizer whose
\* _draw throws or not this time: "skip" (early return), "drawn", "throws".
display(v, drawThrows) ==
    IF ~displayDraws(v) THEN "skip"
    ELSE IF drawThrows THEN "throws" ELSE "drawn"

\* visualizer.display(...) as _render calls it on an entry of this.visualizers:
\* an entry without a display method raises a TypeError.
CallDisplay(v, drawThrows) ==
    IF IsVisualizer(v) THEN display(v, drawThrows) ELSE "typeerror"

\* The for-loop of _render over this.visualizers from index i on. thrower is
\* the index of the visualizer whose _draw throws in this pass (0: none).
\* The loop has no try/catch: the first exception leaves it.
RECURSIVE RenderLoop(_, _, _, _)
RenderLoop(vs, i, thrower, acc) ==
    IF i > Len(vs) THEN acc
    ELSE LET outcome == CallDisplay(vs[i], thrower = i)
             called == IF outcome = "typeerror" THEN acc.called
                       ELSE Append(acc.called, i)
             drew == IF outcome \in {"drawn", "throws"}
                     THEN Append(acc.drew, i) ELSE acc.drew
         IN IF outcome \in {"throws", "typeerror"}
            THEN [called |-> called, drew |-> drew, threw |-> i]
            ELSE RenderLoop(vs, i + 1, thrower,
                            [called |-> called, drew |-> drew, threw |-> 0])

NoPass == [called |-> <<>>, drew |-> <<>>, threw |-> 0]

\* A dedup test that never matches (the watermark is not consulted).
SameTimeNever(watermark, now) == FALSE

\* The dedup test of _render: this._lastRenderTime === currentTime
SameTime(watermark, now) == watermark = now

\* _render(): the new watermark, whether clearRect ran, and the loop's result.
render(vs, wm, now, visible, thrower) ==
    IF SameTime(wm, now)
    THEN [watermark |-> wm, cleared |-> FALSE, pass |-> NoPass]
    ELSE IF visible
         THEN [watermark |-> now, cleared |-> TRUE,
               pass |-> RenderLoop(vs, 1, thrower, NoPass)]
         ELSE [watermark |-> now, cleared |-> FALSE, pass |-> NoPass]

\* The timeupdate listener: _render only while this.isVisible.
OnTimeUpdate(vs, wm, now, visible, thrower) ==
    IF visible THEN render(vs, wm, now, visible, thrower)
    ELSE [watermark |-> wm, cleared |-> FALSE, pass |-> NoPass]

\* A resize that sizes the canvas to the element's on-screen box.
resizeToDisplay(naturalSize, displaySize) == displaySize

\* _resize(): the canvas's new <<width, height>>.
resize(naturalSize, displaySize) == naturalSize

\* ------------------------------------------------------------- actions
\* The record of a notification: whether the coordinator was visible, and
\* what the listener did (clearRect, the display calls in call order, the
\* _draw calls in call order, the index of the visualizer that threw, whether
\* the exception left the listener). tick alternates, so that the records of
\* two consecutive notifications differ.
NoNotification ==
    [tick |-> 0, visible |-> FALSE, cleared |-> FALSE, called |-> <<>>,
     drew |-> <<>>, threw |-> 0, propagated |-> FALSE]

\* The parts of the state a specification leaves alone.
RenderersIdle ==
    rCategory = "none" /\ rAnnotations = <<>> /\ rTimeMs = -1 /\ rDraws = <<>>
ArchiveIdle == manifest = "null" /\ renderers = <<>> /\ handedOver = "none"
NoCall == [op |-> "none"]
ManifestIdle == mfItems = <<>> /\ mfLast = NoCall
NoFrame == [rendered |-> FALSE]
TrajectoryIdle ==
    /\ tjPoints = <<>> /\ tjInterpolation = "linear"
    /\ tjTimeMs = -2 /\ tjFrame = NoFrame

\* A JavaScript object without fields.
EmptyObject == [f \in {} |-> 0]

InertialIdle ==
    /\ ibMetadata = EmptyObject /\ ibData = EmptyObject
    /\ ibVisible = FALSE /\ ibLast = NoCall
StyleIdle ==
    /\ stRenderer = "none" /\ stOptions = EmptyObject
    /\ stStyle = EmptyObject /\ stDrawn = NoCall
PassIdle ==
    /\ psAnnotations = <<>> /\ psLastRenderTime = <<>>
    /\ psCanvas = <<>> /\ psLast = NoCall
DrawingIdle == InertialIdle /\ StyleIdle /\ PassIdle

SyncIdle ==
    /\ syVisualizers = <<>> /\ syVisible = FALSE /\ syLastRenderTime = -1
    /\ syCurrentTime = 0 /\ syBitmap = NoCall /\ syLast = NoCall
VisibilityIdle ==
    /\ vzVisible = FALSE /\ vzRenderers = <<>> /\ vzDisabled = {}
    /\ vzLast = NoCall
SizingIdle ==
    /\ szNatural = NoSize /\ szDisplayed = NoSize /\ szCanvas = NoSize
    /\ szLast = NoCall
BoxesIdle ==
    /\ bxMetadata = <<>> /\ bxVisualizer = <<>> /\ bxAnnotations = {}
    /\ bxLast = NoCall
RecorderIdle ==
    /\ rcIsRecording = FALSE /\ rcMediaRecorder = 0
    /\ rcRecordedChunks = <<>> /\ rcRecorders = <<>> /\ rcTimers = {}
    /\ rcCancelled = {} /\ rcDownloads = <<>> /\ rcLast = NoCall
MoreIdle ==
    SyncIdle /\ VisibilityIdle /\ SizingIdle /\ BoxesIdle /\ RecorderIdle
BesidesSyncIdle ==
    VisibilityIdle /\ SizingIdle /\ BoxesIdle /\ RecorderIdle
BesidesVisibilityIdle ==
    SyncIdle /\ SizingIdle /\ BoxesIdle /\ RecorderIdle
BesidesSizingIdle ==
    SyncIdle /\ VisibilityIdle /\ BoxesIdle /\ RecorderIdle
BesidesBoxesIdle ==
    SyncIdle /\ VisibilityIdle /\ SizingIdle /\ RecorderIdle
BesidesRecorderIdle ==
    SyncIdle /\ VisibilityIdle /\ SizingIdle /\ BoxesIdle

Init ==
    /\ RenderersIdle /\ ArchiveIdle /\ ManifestIdle /\ TrajectoryIdle
    /\ DrawingIdle /\ MoreIdle
    /\ pc = "new"
    /\ ctx = "none"
    /\ visualizerCategories = <<>>
    /\ metadata = StringArg
    /\ visualizers = <<>>
    /\ listeners = {}
    /\ isVisible = FALSE
    /\ lastRenderTime = -1
    /\ currentTime = 0
    /\ natural = NoSize
    /\ displayed \in DisplaySizes
    /\ canvasSize = DefaultCanvasSize
    /\ resized = FALSE
    /\ rendered = {}
    /\ lastPassTime = -1
    /\ last = NoNotification

\* new VideoAnnotator(video, metadata, canvas, visualizerCategories)
Construct ==
    /\ pc = "new"
    /\ \E ctxOK \in BOOLEAN, m \in MetadataSet, cats \in CategoryLists :
         LET r == Constructor(ctxOK, m, cats) IN
         /\ pc' = IF r.threw THEN "failed" ELSE "live"
         /\ ctx' = IF ctxOK THEN "2d" ELSE "null"
         /\ visualizers' = r.visualizers
         /\ listeners' = r.listeners
         /\ metadata' = IF ctxOK THEN m ELSE metadata
         /\ visualizerCategories' = IF ctxOK THEN cats ELSE <<>>
         /\ isVisible' = ctxOK
    /\ UNCHANGED <<lastRenderTime, currentTime, natural, displayed,
                   canvasSize, resized, rendered, lastPassTime, last>>
    /\ UNCHANGED <<rendererVars, archiveVars, manifestVars, trajectoryVars,
                       drawingVars, moreVars>>

\* The video reports a playback position (playing on, paused, or after a
\* seek) and the timeupdate listener runs.
TimeUpdate ==
    /\ pc = "live"
    /\ "timeupdate" \in listeners
    /\ \E t \in Times, thrower \in 0..Len(visualizers) :
         LET r == OnTimeUpdate(visualizers, lastRenderTime, t, isVisible,
                               thrower) IN
         /\ currentTime' = t
         /\ lastRenderTime' = r.watermark
         /\ rendered' = IF r.cleared THEN rendered \cup {t} ELSE rendered
         /\ lastPassTime' = IF r.cleared THEN t ELSE lastPassTime
         /\ last' =
              [tick |-> 1 - last.tick, visible |-> isVisible,
               cleared |-> r.cleared, called |-> r.pass.called,
               drew |-> r.pass.drew, threw |-> r.pass.threw,
               propagated |-> r.pass.threw # 0]
    /\ UNCHANGED <<pc, ctx, visualizerCategories, metadata, visualizers,
                   listeners, isVisible, natural, displayed, canvasSize,
                   resized>>
    /\ UNCHANGED <<rendererVars, archiveVars, manifestVars, trajectoryVars,
                       drawingVars, moreVars>>

\* The ResizeObserver callback: the <video> element's box changed.
ResizeObserved ==
    /\ pc = "live"
    /\ "resize" \in listeners
    /\ \E d \in DisplaySizes :
         /\ displayed' = d
         /\ canvasSize' = resize(natural, d)
    /\ resized' = TRUE
    /\ UNCHANGED <<pc, ctx, visualizerCategories, metadata, visualizers,
                   listeners, isVisible, lastRenderTime, currentTime, natural,
                   rendered, lastPassTime, last>>
    /\ UNCHANGED <<rendererVars, archiveVars, manifestVars, trajectoryVars,
                       drawingVars, moreVars>>

\* The video's loadedmetadata event: the source's natural size is known.
LoadedMetadata ==
    /\ pc = "live"
    /\ "loadedmetadata" \in listeners
    /\ \E n \in NaturalSizes :
         /\ natural' = n
         /\ canvasSize' = resize(n, displayed)
    /\ resized' = TRUE
    /\ UNCHANGED <<pc, ctx, visualizerCategories, metadata, visualizers,
                   listeners, isVisible, lastRenderTime, currentTime,
                   displayed, rendered, lastPassTime, last>>
    /\ UNCHANGED <<rendererVars, archiveVars, manifestVars, trajectoryVars,
                       drawingVars, moreVars>>

\* The host toggles the coordinator: annotator.isVisible = b
SetVisible ==
    /\ pc = "live"
    /\ \E b \in BOOLEAN : isVisible' = b
    /\ UNCHANGED <<pc, ctx, visualizerCategories, metadata, visualizers,
                   listeners, lastRenderTime, currentTime, natural, displayed,
                   canvasSize, resized, rendered, lastPassTime, last>>
    /\ UNCHANGED <<rendererVars, archiveVars, manifestVars, trajectoryVars,
                       drawingVars, moreVars>>

\* BaseVisualizer.setVisible(b) on one owned visualizer
VisualizerSetVisible ==
    /\ pc = "live"
    /\ \E i \in 1..Len(visualizers), b \in BOOLEAN :
         /\ IsVisualizer(visualizers[i])
         /\ visualizers' = [visualizers EXCEPT ![i].visible = b]
    /\ UNCHANGED <<pc, ctx, visualizerCategories, metadata, listeners,
                   isVisible, lastRenderTime, currentTime, natural, displayed,
                   canvasSize, resized, rendered, lastPassTime, last>>
    /\ UNCHANGED <<rendererVars, archiveVars, manifestVars, trajectoryVars,
                       drawingVars, moreVars>>

Next ==
    \/ Construct
    \/ TimeUpdate
    \/ ResizeObserved
    \/ LoadedMetadata
    \/ SetVisible
    \/ VisualizerSetVisible

Spec == Init /\ [][Next]_vars

\* ------------------------------------------- annotation-list renderers
\* Renderers whose render(ctx, currentTimeMs, videoRect) reads
\* this.annotations.  An annotation carries the time window the renderers
\* test and the number of well-formed lane lines in data.vanishing_triangle
\* (0 also stands for missing data).
MaxStart == 1
MaxDuration == 1
MaxAnnotations == 2

RenderTimes == 0..(MaxStart + MaxDuration + 1)
LaneLineCounts == {0, 2}
TimedAnnotations ==
    [startTimeMs : 0..MaxStart, durationMs : 0..MaxDuration,
     lines : LaneLineCounts]
TimedAnnotationLists ==
    UNION {[1..n -> TimedAnnotations] : n \in 0..MaxAnnotations}
RendererCategories == {"dsf", "debug-cross"}

\* A draw call; annotation is the index in this.annotations of the
\* annotation it was issued for, 0 when it was issued for none.
Stroke(i) == [call |-> "stroke", annotation |-> i]

RECURSIVE Repeat(_, _)
Repeat(x, n) == IF n = 0 THEN <<>> ELSE <<x>> \o Repeat(x, n - 1)

\* The filter predicate of DSFRenderer.render.
DSFActive(annotation, currentTimeMs) ==
    /\ currentTimeMs >= annotation.startTimeMs
    /\ currentTimeMs <= annotation.startTimeMs + annotation.durationMs

DSFActiveAlways(annotation, currentTimeMs) == TRUE

\* DSFRenderer.renderAnnotation: one stroke per well-formed lane line,
\* nothing when the triangle has fewer than two entries.
DSFRenderAnnotation(annotations, i) ==
    IF annotations[i].lines < 2 THEN <<>>
    ELSE Repeat(Stroke(i), annotations[i].lines)

RECURSIVE DSFRender(_, _, _)
DSFRender(annotations, currentTimeMs, i) ==
    IF i > Len(annotations) THEN <<>>
    ELSE (IF DSFActive(annotations[i], currentTimeMs)
          THEN DSFRenderAnnotation(annotations, i) ELSE <<>>)
         \o DSFRender(annotations, currentTimeMs, i + 1)

\* CrossRenderer.render: the diagonal cross and the plus, whatever the
\* annotation list and the time are.
CrossRender(annotations, currentTimeMs) == <<Stroke(0), Stroke(0)>>

RendererRender(category, annotations, currentTimeMs) ==
    IF category = "dsf" THEN DSFRender(annotations, currentTimeMs, 1)
    ELSE CrossRender(annotations, currentTimeMs)

AnnotatorIdle ==
    /\ pc = "new" /\ ctx = "none"
    /\ visualizerCategories = <<>> /\ metadata = StringArg
    /\ visualizers = <<>> /\ listeners = {}
    /\ isVisible = FALSE /\ lastRenderTime = -1 /\ currentTime = 0
    /\ natural = NoSize /\ displayed = <<2, 1>>
    /\ canvasSize = DefaultCanvasSize /\ resized = FALSE
    /\ rendered = {} /\ lastPassTime = -1 /\ last = NoNotification

InitRenderers ==
    /\ AnnotatorIdle /\ ArchiveIdle /\ ManifestIdle /\ TrajectoryIdle
    /\ DrawingIdle /\ MoreIdle
    /\ rCategory \in RendererCategories
    /\ rAnnotations \in TimedAnnotationLists
    /\ rTimeMs = -1
    /\ rDraws = <<>>

\* renderer.render(ctx, currentTimeMs, videoRect)
RenderCall ==
    \E t \in RenderTimes :
        /\ rTimeMs' = t
        /\ rDraws' = RendererRender(rCategory, rAnnotations, t)
        /\ UNCHANGED <<rCategory, rAnnotations, annotatorVars, archiveVars,
                       manifestVars, trajectoryVars,
                       drawingVars, moreVars>>

NextRenderers == RenderCall

SpecRenderers == InitRenderers /\ [][NextRenderers]_vars

\* --------------------------------------------- multi-canvas coordinator
\* The coordinator that keeps an AnnotationManifest and one renderer, with
\* its own annotation list, per category.
MaxItems == 2           \* most annotations a manifest grows to
MaxLoaded == 1          \* longest list in a manifest given to loadManifest

\* Static categories of AVAILABLE_RENDERER_CLASSES.
RendererMap ==
    {"detection", "text", "graph", "trajectory", "cross", "hello", "dsf"}

AnnotationIds == {"a", "b"}
AnnotationCategories == {"text", "detection", "unknown-category"}

\* An Annotation: its id and its category.
Annotations == [id : AnnotationIds, category : AnnotationCategories]
AnnotationLists(n) == UNION {[1..k -> Annotations] : k \in 0..n}

\* manifest.items is an object: its entries in insertion order.
Keys(items) == {items[i].key : i \in 1..Len(items)}
Entry(items, key) == CHOOSE i \in 1..Len(items) : items[i].key = key
ItemsAt(items, key) ==
    IF key \in Keys(items) THEN items[Entry(items, key)].anns ELSE <<>>

RECURSIVE Count(_)
Count(items) ==
    IF items = <<>> THEN 0 ELSE Len(Head(items).anns) + Count(Tail(items))

\* new AnnotationManifest({items}): _processItemsMap keeps every list under
\* the key the caller filed it under.  timeRangesOk tells whether every
\* annotation of the manifest has startMs <= endMs.
ManifestItems ==
    {<<>>} \cup
    {<<[key |-> k, anns |-> l]>> :
        k \in AnnotationCategories, l \in AnnotationLists(MaxLoaded)}
Manifests == [items : ManifestItems, timeRangesOk : BOOLEAN]

\* AnnotationManifest.validate: ids and categories are strings here, so the
\* time ranges decide.
Validate(m) == m.timeRangesOk

\* AnnotationManifest.addItem
AddItem(items, a) ==
    IF a.category \in Keys(items)
    THEN [items EXCEPT ![Entry(items, a.category)].anns = Append(@, a)]
    ELSE Append(items, [key |-> a.category, anns |-> <<a>>])

WithoutId(anns, id) == SelectSeq(anns, LAMBDA item : item.id # id)
WithoutIndex(s, i) == SubSeq(s, 1, i - 1) \o SubSeq(s, i + 1, Len(s))

\* AnnotationManifest.removeItem: the first entry holding the id loses every
\* item with that id, and the entry itself when nothing is left of it.
RemoveItem(items, id) ==
    LET hits == {i \in 1..Len(items) :
                    Len(WithoutId(items[i].anns, id)) < Len(items[i].anns)}
    IN  IF hits = {} THEN [found |-> FALSE, items |-> items]
        ELSE LET i == Min(hits)
                 rest == WithoutId(items[i].anns, id)
             IN  [found |-> TRUE,
                  items |-> IF rest = <<>> THEN WithoutIndex(items, i)
                            ELSE [items EXCEPT ![i].anns = rest]]

\* new RendererClass(this)
NewRenderer == [annotations |-> <<>>, isVisible |-> FALSE]

setAnnotationsUnfiltered(category, annotations) == annotations

\* BaseRenderer.setAnnotations
setAnnotations(category, annotations) ==
    SelectSeq(annotations, LAMBDA ann : ann.category = category)

\* _createRendererForCategory followed by registerRenderer
RegisterFor(rs, category) ==
    IF category \in DOMAIN rs \/ category \notin RendererMap THEN rs
    ELSE [c \in DOMAIN rs \cup {category} |->
            IF c = category THEN NewRenderer ELSE rs[c]]

RECURSIVE SetupRenderers(_, _, _)
SetupRenderers(rs, items, i) ==
    IF i > Len(items) THEN rs
    ELSE SetupRenderers(
            IF Len(items[i].anns) > 0 THEN RegisterFor(rs, items[i].key)
            ELSE rs,
            items, i + 1)

\* _setupRequiredRenderers
setupRequiredRenderers(rs, items) == SetupRenderers(rs, items, 1)

\* _distributeAnnotationsToRenderers
distributeAnnotationsToRenderers(rs, items) ==
    [c \in DOMAIN rs |->
        [rs[c] EXCEPT !.annotations = setAnnotations(c, ItemsAt(items, c))]]

NoRenderers == [c \in {} |-> NewRenderer]

InitArchive ==
    /\ AnnotatorIdle /\ RenderersIdle /\ ManifestIdle /\ TrajectoryIdle
    /\ DrawingIdle /\ MoreIdle
    /\ manifest = "null"
    /\ renderers = NoRenderers
    /\ handedOver = "none"

\* loadManifest(manifest); an invalid manifest throws and changes nothing.
\* this.manifest = manifest keeps the caller's object itself, not a copy.
LoadManifest ==
    \E m \in Manifests :
        /\ IF Validate(m)
           THEN /\ manifest' = m.items
                /\ handedOver' = m.items
                /\ renderers' = distributeAnnotationsToRenderers(
                                    setupRequiredRenderers(renderers, m.items),
                                    m.items)
           ELSE UNCHANGED <<manifest, renderers, handedOver>>
        /\ UNCHANGED <<annotatorVars, rendererVars, manifestVars,
                       trajectoryVars, drawingVars, moreVars>>

\* addAnnotation(annotation)
AddAnnotation ==
    \E a \in Annotations :
        LET items == IF manifest = "null" THEN <<>> ELSE manifest
        IN  /\ Count(items) < MaxItems
            /\ manifest' = AddItem(items, a)
            /\ renderers' = distributeAnnotationsToRenderers(
                                RegisterFor(renderers, a.category), manifest')
            /\ UNCHANGED <<handedOver, annotatorVars, rendererVars,
                       manifestVars, trajectoryVars,
                       drawingVars, moreVars>>

\* removeAnnotation(id)
RemoveAnnotation ==
    \E id \in AnnotationIds :
        /\ manifest # "null"
        /\ LET removed == RemoveItem(manifest, id)
           IN  /\ manifest' = removed.items
               /\ renderers' =
                    IF removed.found
                    THEN distributeAnnotationsToRenderers(renderers,
                                                          removed.items)
                    ELSE renderers
        /\ UNCHANGED <<handedOver, annotatorVars, rendererVars,
                       manifestVars, trajectoryVars,
                       drawingVars, moreVars>>

\* clearAnnotations()
ClearAnnotations ==
    /\ manifest # "null"
    /\ manifest' = <<>>
    /\ renderers' = distributeAnnotationsToRenderers(renderers, <<>>)
    /\ UNCHANGED <<handedOver, annotatorVars, rendererVars,
                       manifestVars, trajectoryVars,
                       drawingVars, moreVars>>

NextArchive ==
    \/ LoadManifest
    \/ AddAnnotation
    \/ RemoveAnnotation
    \/ ClearAnnotations

SpecArchive == InitArchive /\ [][NextArchive]_vars


\* ------------------------------------------------ the manifest by itself
\* Annotation and AnnotationManifest of annotation-manifest.js, called
\* directly.  A record handed to the constructor is a JavaScript object: a
\* field it lacks is absent from the record's DOMAIN.

\* timeRange objects: complete ones built as the extractors build them
\* (endMs = startMs + duration) for the shortest window at the earliest
\* start and the longest at the latest, ones with a single bound, and {}.
TimeRanges ==
    {[startMs |-> 0, endMs |-> 0],
     [startMs |-> MaxStart, endMs |-> MaxStart + MaxDuration],
     [startMs |-> MaxStart], [endMs |-> MaxStart], EmptyObject}

WithField(r, name, values) ==
    {r} \cup {[f \in DOMAIN r \cup {name} |-> IF f = name THEN v ELSE r[f]] :
                v \in values}

\* What a caller may pass as annotation data: id and category may be
\* missing or empty, timeRange may be missing.
AnnotationData ==
    UNION {WithField(r2, "timeRange", TimeRanges) :
        r2 \in UNION {WithField(r1, "category", {"text", "detection", ""}) :
            r1 \in WithField(EmptyObject, "id", {"a", ""})}}

Field(r, name, default) == IF name \in DOMAIN r THEN r[name] ELSE default

NewAnnotationUnchecked(data) ==
    [threw |-> "",
     annotation |->
        [id |-> Field(data, "id", ""), category |-> Field(data, "category", ""),
         timeRange |-> Field(data, "timeRange", EmptyObject)]]

\* new Annotation(data): the object, or the error it throws.
NewAnnotation(data) ==
    IF Field(data, "id", "") = ""
    THEN [threw |-> "Annotation must have an id"]
    ELSE IF Field(data, "category", "") = ""
    THEN [threw |-> "Annotation must have a category"]
    ELSE [threw |-> "",
          annotation |->
            [id |-> data.id, category |-> data.category,
             timeRange |-> Field(data, "timeRange", EmptyObject)]]

isVisibleAtOpenEnd(a, timeMs) ==
    /\ timeMs >= Field(a.timeRange, "startMs", 0)
    /\ ("endMs" \in DOMAIN a.timeRange => timeMs < a.timeRange.endMs)

\* Annotation.isVisibleAt: startMs defaults to 0, endMs to Infinity.
isVisibleAt(a, timeMs) ==
    /\ timeMs >= Field(a.timeRange, "startMs", 0)
    /\ ("endMs" \in DOMAIN a.timeRange => timeMs <= a.timeRange.endMs)

\* AnnotationManifest.getItemsAtTime
RECURSIVE getItemsAtTime(_, _)
getItemsAtTime(items, timeMs) ==
    IF items = <<>> THEN <<>>
    ELSE SelectSeq(Head(items).anns, LAMBDA item : isVisibleAt(item, timeMs))
         \o getItemsAtTime(Tail(items), timeMs)

InitManifest ==
    /\ AnnotatorIdle /\ RenderersIdle /\ ArchiveIdle /\ TrajectoryIdle
    /\ DrawingIdle /\ MoreIdle
    /\ mfItems = <<>>
    /\ mfLast = NoCall

\* manifest.addItem(data)
MfAddItem ==
    \E data \in AnnotationData :
        LET made == NewAnnotation(data)
        IN  /\ Count(mfItems) < MaxItems
            /\ mfItems' = IF made.threw # "" THEN mfItems
                          ELSE AddItem(mfItems, made.annotation)
            /\ mfLast' = [op |-> "addItem", arg |-> data, threw |-> made.threw]
            /\ UNCHANGED <<annotatorVars, rendererVars, archiveVars,
                           trajectoryVars, drawingVars, moreVars>>

\* manifest = new AnnotationManifest({items: {[data.category]: [data]}});
\* when the constructor throws, the variable keeps the manifest it had.
MfConstruct ==
    \E data \in AnnotationData :
        LET made == NewAnnotation(data)
        IN  /\ mfItems' = IF made.threw # "" THEN mfItems
                          ELSE <<[key |-> data.category,
                                  anns |-> <<made.annotation>>]>>
            /\ mfLast' = [op |-> "construct", arg |-> data,
                          threw |-> made.threw]
            /\ UNCHANGED <<annotatorVars, rendererVars, archiveVars,
                           trajectoryVars, drawingVars, moreVars>>

\* manifest.getItemsAtTime(timeMs)
MfGetItemsAtTime ==
    \E t \in RenderTimes :
        /\ mfLast' = [op |-> "getItemsAtTime", arg |-> t, threw |-> "",
                      result |-> getItemsAtTime(mfItems, t)]
        /\ UNCHANGED <<mfItems, annotatorVars, rendererVars, archiveVars,
                       trajectoryVars, drawingVars, moreVars>>

\* manifest.removeItem(id)
MfRemoveItem ==
    \E id \in AnnotationIds :
        LET removed == RemoveItem(mfItems, id)
        IN  /\ mfItems' = removed.items
            /\ mfLast' = [op |-> "removeItem", arg |-> id, threw |-> "",
                          result |-> removed.found]
            /\ UNCHANGED <<annotatorVars, rendererVars, archiveVars,
                           trajectoryVars, drawingVars, moreVars>>

NextManifest ==
    \/ MfAddItem
    \/ MfConstruct
    \/ MfGetItemsAtTime
    \/ MfRemoveItem

SpecManifest == InitManifest /\ [][NextManifest]_vars

\* ---------------------------------------------------------- trajectories
\* TrajectoryRenderer and the interpolation helpers of BaseRenderer.  One
\* time unit is 500 ms; waypoints sit on even times so that a query can
\* fall half-way between two of them.  Positions are exact fractions:
\* [xn, yn, den] stands for (xn / den, yn / den).
MaxWaypoints == 3
MaxPointTime == 2

\* options.defaultHistoryLengthMs (2000 ms) in time units
defaultHistoryLengthMs == 4

WaypointTimes == {2 * k : k \in 0..MaxPointTime}
QueryTimes == (-1)..(2 * MaxPointTime + 1)
Coordinates == {0, 1}
Waypoints == [x : Coordinates, y : Coordinates, timeMs : WaypointTimes]

\* data.points: an ordered waypoint sequence (timestamps never decrease).
Trajectories ==
    {w \in UNION {[1..n -> Waypoints] : n \in 1..MaxWaypoints} :
        \A i \in 1..(Len(w) - 1) : w[i].timeMs <= w[i + 1].timeMs}
Interpolations == {"linear", "bezier"}
TrajectoryVideoRect == [width |-> 4, height |-> 2]

NullPosition == [null |-> TRUE]
PointPosition(p) == [xn |-> p.x, yn |-> p.y, den |-> 1]

\* The first i with points[i].timeMs <= T <= points[i+1].timeMs, 0 if none
\* (the loops that leave segmentIndex at -1 / beforePoint at null).
FindSegment(points, T) ==
    LET hits == {i \in 1..(Len(points) - 1) :
                    T >= points[i].timeMs /\ T <= points[i + 1].timeMs}
    IN  IF hits = {} THEN 0 ELSE Min(hits)

FactorFromEnd(before, after, T) ==
    IF after.timeMs - before.timeMs > 0
    THEN [n |-> after.timeMs - T, d |-> after.timeMs - before.timeMs]
    ELSE [n |-> 0, d |-> 1]

\* t = timeDiff > 0 ? (T - before.timeMs) / timeDiff : 0, as n / d
Factor(before, after, T) ==
    IF after.timeMs - before.timeMs > 0
    THEN [n |-> T - before.timeMs, d |-> after.timeMs - before.timeMs]
    ELSE [n |-> 0, d |-> 1]

\* lerp(start, end, t) for both coordinates
LerpPosition(before, after, t) ==
    [xn |-> before.x * t.d + (after.x - before.x) * t.n,
     yn |-> before.y * t.d + (after.y - before.y) * t.n,
     den |-> t.d]

\* B(t) = (1-t)^3 P0 + 3(1-t)^2 t C1 + 3(1-t) t^2 C2 + t^3 P1 for one
\* coordinate; c1 and c2 are given multiplied by scale.
Bernstein(p0, c1, c2, p1, t, scale) ==
    LET mt == t.d - t.n
    IN  scale * mt * mt * mt * p0 + 3 * mt * mt * t.n * c1
        + 3 * mt * t.n * t.n * c2 + scale * t.n * t.n * t.n * p1

\* BaseRenderer._getControlPoint, multiplied by 10 (its factor is 0.3).
getControlPoint(points, index, isFirst) ==
    LET current == points[index]
        prev == IF index > 1 THEN points[index - 1] ELSE current
        next == IF index < Len(points) THEN points[index + 1] ELSE current
        direction == IF isFirst THEN 1 ELSE -1
    IN  IF Len(points) < 3
        THEN [x |-> 10 * current.x, y |-> 10 * current.y]
        ELSE [x |-> 10 * current.x + direction * 3 * (next.x - prev.x),
              y |-> 10 * current.y + direction * 3 * (next.y - prev.y)]

\* BaseRenderer._bezierInterpolation
bezierInterpolation(points, beforeIndex, afterIndex, t) ==
    LET p1 == points[beforeIndex]
        p2 == points[afterIndex]
        control1 == getControlPoint(points, beforeIndex, TRUE)
        control2 == getControlPoint(points, afterIndex, FALSE)
    IN  [xn |-> Bernstein(p1.x, control1.x, control2.x, p2.x, t, 10),
         yn |-> Bernstein(p1.y, control1.y, control2.y, p2.y, t, 10),
         den |-> 10 * t.d * t.d * t.d]

getInterpolatedPositionLast(points, currentTimeMs, interpolation) ==
    IF Len(points) = 0 THEN NullPosition
    ELSE PointPosition(points[Len(points)])

\* BaseRenderer.getInterpolatedPosition
getInterpolatedPosition(points, currentTimeMs, interpolation) ==
    IF Len(points) = 0 THEN NullPosition
    ELSE IF Len(points) = 1 THEN PointPosition(points[1])
    ELSE LET i == FindSegment(points, currentTimeMs)
         IN  IF i = 0
             THEN IF currentTimeMs <= points[1].timeMs
                  THEN PointPosition(points[1])
                  ELSE IF currentTimeMs >= points[Len(points)].timeMs
                  THEN PointPosition(points[Len(points)])
                  ELSE NullPosition
             ELSE LET t == Factor(points[i], points[i + 1], currentTimeMs)
                  IN  IF interpolation = "bezier" /\ Len(points) >= 3
                      THEN bezierInterpolation(points, i, i + 1, t)
                      ELSE LerpPosition(points[i], points[i + 1], t)

\* TrajectoryRenderer.calculateBezierControlPoints on the list it is given;
\* the control points are multiplied by 5 (smoothingFactor is 0.2).
calculateBezierControlPoints(points, segmentIndex) ==
    LET currentPoint == points[segmentIndex]
        nextPoint == points[segmentIndex + 1]
    IN  [cp1x |-> IF segmentIndex > 1
                  THEN 5 * currentPoint.x
                       + (nextPoint.x - points[segmentIndex - 1].x)
                  ELSE 5 * currentPoint.x,
         cp1y |-> IF segmentIndex > 1
                  THEN 5 * currentPoint.y
                       + (nextPoint.y - points[segmentIndex - 1].y)
                  ELSE 5 * currentPoint.y,
         cp2x |-> IF segmentIndex < Len(points) - 1
                  THEN 5 * nextPoint.x
                       - (points[segmentIndex + 2].x - currentPoint.x)
                  ELSE 5 * nextPoint.x,
         cp2y |-> IF segmentIndex < Len(points) - 1
                  THEN 5 * nextPoint.y
                       - (points[segmentIndex + 2].y - currentPoint.y)
                  ELSE 5 * nextPoint.y]

\* Math.max(0, Math.min(1, n / d)) for d > 0
Clamp01(n, d) == [n |-> IF n < 0 THEN 0 ELSE IF n > d THEN d ELSE n, d |-> d]

\* TrajectoryRenderer.getInterpolatedPositionOnSmoothCurve
getInterpolatedPositionOnSmoothCurve(points, currentTimeMs) ==
    IF Len(points) = 0 THEN NullPosition
    ELSE IF Len(points) = 1 THEN PointPosition(points[1])
    ELSE IF Len(points) = 2
    THEN LET timeDiff == points[2].timeMs - points[1].timeMs
         IN  IF timeDiff <= 0 THEN PointPosition(points[1])
             ELSE LerpPosition(points[1], points[2],
                               Clamp01(currentTimeMs - points[1].timeMs,
                                       timeDiff))
    ELSE LET i == FindSegment(points, currentTimeMs)
         IN  IF i = 0
             THEN IF currentTimeMs <= points[1].timeMs
                  THEN PointPosition(points[1])
                  ELSE IF currentTimeMs >= points[Len(points)].timeMs
                  THEN PointPosition(points[Len(points)])
                  ELSE NullPosition
             ELSE LET t == Factor(points[i], points[i + 1], currentTimeMs)
                      cp == calculateBezierControlPoints(points, i)
                  IN  [xn |-> Bernstein(points[i].x, cp.cp1x, cp.cp2x,
                                        points[i + 1].x, t, 5),
                       yn |-> Bernstein(points[i].y, cp.cp1y, cp.cp2y,
                                        points[i + 1].y, t, 5),
                       den |-> 5 * t.d * t.d * t.d]

currentPositionSmoothWheneverBezier(points, currentTimeMs, interpolation) ==
    IF interpolation = "bezier"
    THEN getInterpolatedPositionOnSmoothCurve(points, currentTimeMs)
    ELSE getInterpolatedPosition(points, currentTimeMs, interpolation)

\* The position branch of TrajectoryRenderer.render
currentPosition(points, currentTimeMs, interpolation) ==
    IF interpolation = "bezier" /\ Len(points) >= 3
    THEN getInterpolatedPositionOnSmoothCurve(points, currentTimeMs)
    ELSE getInterpolatedPosition(points, currentTimeMs, interpolation)

\* The segment and control points the marker's position was computed
\* with; segment 0 when no cubic segment was evaluated.
markerControlPoints(points, currentTimeMs, interpolation) ==
    IF /\ interpolation = "bezier" /\ Len(points) >= 3
       /\ FindSegment(points, currentTimeMs) # 0
    THEN [segment |-> FindSegment(points, currentTimeMs),
          cp |-> calculateBezierControlPoints(
                    points, FindSegment(points, currentTimeMs))]
    ELSE [segment |-> 0]

\* pixelPoints: each point denormalized; index remembers which waypoint of
\* data.points the object came from.
pixelPoints(points, videoRect) ==
    [i \in 1..Len(points) |->
        [x |-> points[i].x * videoRect.width,
         y |-> points[i].y * videoRect.height,
         timeMs |-> points[i].timeMs, index |-> i]]

\* TrajectoryRenderer.drawSmoothCurve: the segments it adds to the path, a
\* straight line for two points, one bezierCurveTo per segment otherwise.
drawSmoothCurve(points) ==
    IF Len(points) < 2 THEN <<>>
    ELSE IF Len(points) = 2
    THEN <<[kind |-> "lineTo", from |-> points[1].index,
            to |-> points[2].index]>>
    ELSE [i \in 1..(Len(points) - 1) |->
            [kind |-> "bezierCurveTo", from |-> points[i].index,
             to |-> points[i + 1].index,
             cp |-> calculateBezierControlPoints(points, i)]]

\* drawTrajectoryHistory, drawFullPath and drawFuturePath (style.showFuture
\* set): the curves stroked in one frame.
strokedCurves(pixels, currentTimeMs, historyLengthMs) ==
    LET historyPoints ==
            SelectSeq(pixels, LAMBDA point :
                /\ point.timeMs >= currentTimeMs - historyLengthMs
                /\ point.timeMs <= currentTimeMs)
        futurePoints ==
            SelectSeq(pixels, LAMBDA point : point.timeMs > currentTimeMs)
    IN  [history |-> drawSmoothCurve(historyPoints),
         full |-> drawSmoothCurve(pixels),
         future |-> drawSmoothCurve(futurePoints)]

\* TrajectoryRenderer.render
trajectoryRender(points, currentTimeMs, interpolation, videoRect) ==
    LET position == currentPosition(points, currentTimeMs, interpolation)
    IN  IF Len(points) = 0 \/ position = NullPosition
        THEN [rendered |-> TRUE, position |-> position,
              marker |-> [segment |-> 0],
              curves |-> [history |-> <<>>, full |-> <<>>, future |-> <<>>]]
        ELSE [rendered |-> TRUE, position |-> position,
              marker |-> markerControlPoints(points, currentTimeMs,
                                             interpolation),
              curves |-> strokedCurves(pixelPoints(points, videoRect),
                                       currentTimeMs, defaultHistoryLengthMs)]

InitTrajectory ==
    /\ AnnotatorIdle /\ RenderersIdle /\ ArchiveIdle /\ ManifestIdle
    /\ DrawingIdle /\ MoreIdle
    /\ tjPoints \in Trajectories
    /\ tjInterpolation \in Interpolations
    /\ tjTimeMs = -2
    /\ tjFrame = NoFrame

\* renderer.render(annotation, currentTimeMs, videoRect)
TjRender ==
    \E t \in QueryTimes :
        /\ tjTimeMs' = t
        /\ tjFrame' = trajectoryRender(tjPoints, t, tjInterpolation,
                                       TrajectoryVideoRect)
        /\ UNCHANGED <<tjPoints, tjInterpolation, annotatorVars,
                       rendererVars, archiveVars, manifestVars,
                       drawingVars, moreVars>>

NextTrajectory == TjRender

SpecTrajectory == InitTrajectory /\ [][NextTrajectory]_vars

\* ------------------------------------------------------ the inertial bar
\* InertialBar of vizualizers/inertial-bar.js on top of BaseVisualizer.
\* An accelerometer string is modelled after trim() and split(/\s+/): a
\* sequence of tokens, each one a number or text that parses to NaN.
MaxEntries == 2

Num(n) == [value |-> n]
NotANumber == [nan |-> TRUE]
isNaN(token) == "nan" \in DOMAIN token

\* sensorMetaData entries: one without an accelerometer field, one with too
\* few values, one with an unparsable value, two proper samples.
SensorEntries ==
    {EmptyObject,
     [accelerometer |-> <<Num(1), Num(0), Num(1)>>],
     [accelerometer |-> <<NotANumber, Num(0), Num(1), Num(5)>>],
     [accelerometer |-> <<Num(1), Num(0), Num(1), Num(5)>>],
     [accelerometer |-> <<Num(1), Num(1), Num(0), Num(6)>>]}

\* metadata objects: sensorMetaData missing, not an array, or an array.
InertialMetadata ==
    {EmptyObject, [sensorMetaData |-> [isArray |-> FALSE]]}
    \cup {[sensorMetaData |-> [isArray |-> TRUE, entries |-> e]] :
            e \in UNION {[1..n -> SensorEntries] : n \in 0..MaxEntries}}

NullData == [null |-> TRUE]

\* The test an entry passes before its values are pushed.
Parses(entry) ==
    /\ "accelerometer" \in DOMAIN entry
    /\ Len(entry.accelerometer) >= 4
    /\ \A k \in 1..4 : ~isNaN(entry.accelerometer[k])

\* InertialBar.extractData
inertialExtractData(m) ==
    IF "sensorMetaData" \notin DOMAIN m \/ ~m.sensorMetaData.isArray
    THEN NullData
    ELSE LET samples == SelectSeq(m.sensorMetaData.entries, Parses)
             column(k) == [i \in 1..Len(samples) |->
                              samples[i].accelerometer[k].value]
         IN  IF Len(samples) = 0 THEN NullData
             ELSE [acc1 |-> column(1), acc2 |-> column(2),
                   acc3 |-> column(3), epochtime |-> column(4)]

NoDrawing == [panel |-> FALSE]

\* InertialBar._draw: background and grid, then the curves of the real
\* series when this.data has acc2, acc3 and epochtime (arrays are truthy
\* even when empty), the generated ones otherwise.
inertialDraw(data, epochTime) ==
    IF data = NullData THEN NoDrawing
    ELSE [panel |-> TRUE,
          curves |-> IF {"acc2", "acc3", "epochtime"} \subseteq DOMAIN data
                     THEN "real" ELSE "synthetic",
          timeline |-> epochTime]

\* BaseVisualizer.display: nothing unless isValid() and _visible.
inertialDisplay(data, visible, epochTime) ==
    IF data = NullData \/ ~visible THEN NoDrawing
    ELSE inertialDraw(data, epochTime)

\* new InertialBar(metadata)
InitInertial ==
    /\ AnnotatorIdle /\ RenderersIdle /\ ArchiveIdle /\ ManifestIdle
    /\ TrajectoryIdle /\ StyleIdle /\ PassIdle /\ MoreIdle
    /\ ibMetadata \in InertialMetadata
    /\ ibData = inertialExtractData(ibMetadata)
    /\ ibVisible = TRUE
    /\ ibLast = NoCall

\* visualizer.display(ctx, epochTime, videoRect)
IbDisplay ==
    \E t \in Times :
        /\ ibLast' = [op |-> "display", epochTime |-> t, visible |-> ibVisible,
                      drew |-> inertialDisplay(ibData, ibVisible, t)]
        /\ UNCHANGED <<ibMetadata, ibData, ibVisible>>
        /\ UNCHANGED <<annotatorVars, rendererVars, archiveVars, manifestVars,
                       trajectoryVars, styleVars, passVars, moreVars>>

\* visualizer.setVisible(visible)
IbSetVisible ==
    \E v \in BOOLEAN :
        /\ ibVisible' = v
        /\ ibLast' = [op |-> "setVisible"]
        /\ UNCHANGED <<ibMetadata, ibData>>
        /\ UNCHANGED <<annotatorVars, rendererVars, archiveVars, manifestVars,
                       trajectoryVars, styleVars, passVars, moreVars>>

NextInertial == IbDisplay \/ IbSetVisible

SpecInertial == InitInertial /\ [][NextInertial]_vars

\* ------------------------------------------------------ style resolution
\* How DetectionRenderer.drawBoundingBox, TrajectoryRenderer.drawFullPath
\* and DSFRenderer.render pick the values they draw with.  Opacities are
\* in percent; a style object lacks a key when the key is not in its DOMAIN.
StyledRenderers == {"detection", "trajectory", "dsf"}

\* getDefaultOptions() of the three renderers (the options read here).
DefaultOptions ==
    [detection |-> [defaultBorderColor |-> "#ff0000",
                    defaultBorderWidth |-> 2,
                    defaultFillOpacity |-> 10],
     trajectory |-> [defaultLineColor |-> "#ffff00",
                     defaultLineWidth |-> 3],
     dsf |-> [defaultStrokeColor |-> "#00FF00",
              defaultLineWidth |-> 2,
              defaultOpacity |-> 100,
              defaultShowEndpoints |-> FALSE]]

\* Options a caller may hand to the renderer's constructor.
ConstructorOptions ==
    [detection |-> {EmptyObject, [defaultBorderWidth |-> 4]},
     trajectory |-> {EmptyObject, [defaultLineColor |-> "#00ffff"]},
     dsf |-> {EmptyObject, [defaultOpacity |-> 50]}]

\* { ...this.getDefaultOptions(), ...options }
Spread(defaults, options) ==
    [k \in DOMAIN defaults \cup DOMAIN options |->
        IF k \in DOMAIN options THEN options[k] ELSE defaults[k]]

Colours == {"", "#0000ff"}
Widths == {0, 5}
Opacities == {0, 60}

\* The objects that extend one of objects by nothing or by name with one of
\* values.
Extend(objects, name, values) ==
    UNION {WithField(o, name, values) : o \in objects}

\* annotation.style objects per renderer: each key absent or present, with
\* a falsy or a truthy value when present.
Styles ==
    [detection |->
        Extend(Extend(Extend({EmptyObject}, "borderColor", Colours),
                      "borderWidth", Widths), "fillOpacity", Opacities),
     trajectory |->
        Extend(Extend(Extend({EmptyObject}, "lineColor", Colours),
                      "lineWidth", Widths), "pathOpacity", Opacities),
     dsf |->
        Extend(Extend(Extend(Extend({EmptyObject}, "strokeColor", Colours),
                             "lineWidth", Widths), "opacity", Opacities),
               "showEndpoints", BOOLEAN)]

\* style.key || fallback for a key that holds a number: 0 is falsy.
NumberOr(style, key, fallback) ==
    IF key \in DOMAIN style /\ style[key] # 0 THEN style[key] ELSE fallback

\* style.key || fallback for a key that holds a string: "" is falsy.
StringOr(style, key, fallback) ==
    IF key \in DOMAIN style /\ style[key] # "" THEN style[key] ELSE fallback

\* DetectionRenderer.drawBoundingBox
drawBoundingBox(options, style) ==
    LET borderColor == StringOr(style, "borderColor",
                                options.defaultBorderColor)
        borderWidth == NumberOr(style, "borderWidth",
                                options.defaultBorderWidth)
        fillOpacity == NumberOr(style, "fillOpacity",
                                options.defaultFillOpacity)
    IN  [op |-> "draw",
         used |-> [borderColor |-> borderColor, borderWidth |-> borderWidth,
                   fillOpacity |-> fillOpacity],
         strokeStyle |-> borderColor,
         lineWidth |-> borderWidth,
         filled |-> fillOpacity > 0]

\* TrajectoryRenderer.drawFullPath; ctx.lineWidth is half the resolved
\* width, kept as the fraction n / d.
drawFullPath(options, style) ==
    LET lineColor == StringOr(style, "lineColor", options.defaultLineColor)
        lineWidth == NumberOr(style, "lineWidth", options.defaultLineWidth)
        opacity == NumberOr(style, "pathOpacity", 30)
    IN  [op |-> "draw",
         used |-> [lineColor |-> lineColor, lineWidth |-> lineWidth,
                   pathOpacity |-> opacity],
         strokeStyle |-> <<lineColor, opacity>>,
         lineWidth |-> [n |-> lineWidth, d |-> 2]]

\* DSFRenderer.render, the part that sets up the context
dsfStyle(options, style) ==
    LET strokeColor == StringOr(style, "strokeColor",
                                options.defaultStrokeColor)
        lineWidth == NumberOr(style, "lineWidth", options.defaultLineWidth)
        showEndpoints == Field(style, "showEndpoints",
                               options.defaultShowEndpoints)
        opacity == NumberOr(style, "opacity", options.defaultOpacity)
    IN  [op |-> "draw",
         used |-> [strokeColor |-> strokeColor, lineWidth |-> lineWidth,
                   showEndpoints |-> showEndpoints, opacity |-> opacity],
         strokeStyle |-> strokeColor,
         lineWidth |-> lineWidth,
         globalAlpha |-> opacity]

drawWith(renderer, options, style) ==
    CASE renderer = "detection" -> drawBoundingBox(options, style)
      [] renderer = "trajectory" -> drawFullPath(options, style)
      [] renderer = "dsf" -> dsfStyle(options, style)

\* new Renderer(videoAnnotator, options)
InitStyle ==
    /\ AnnotatorIdle /\ RenderersIdle /\ ArchiveIdle /\ ManifestIdle
    /\ TrajectoryIdle /\ InertialIdle /\ PassIdle /\ MoreIdle
    /\ stRenderer \in StyledRenderers
    /\ \E o \in ConstructorOptions[stRenderer] :
            stOptions = Spread(DefaultOptions[stRenderer], o)
    /\ stStyle = EmptyObject
    /\ stDrawn = NoCall

\* The renderer draws an annotation that carries style.
StDraw ==
    \E style \in Styles[stRenderer] :
        /\ stStyle' = style
        /\ stDrawn' = drawWith(stRenderer, stOptions, style)
        /\ UNCHANGED <<stRenderer, stOptions>>
        /\ UNCHANGED <<annotatorVars, rendererVars, archiveVars, manifestVars,
                       trajectoryVars, inertialVars, passVars,
                       moreVars>>

NextStyle == StDraw

SpecStyle == InitStyle /\ [][NextStyle]_vars

\* ---------------------------------------------------------- a render pass
\* VideoAnnotator.render of the multi-canvas coordinator driving a
\* DetectionRenderer and a TrajectoryRenderer through
\* BaseRenderer.renderAtTime.  Both renderers are shown and have a context.
MaxDetections == 2
MaxTrajectories == 1

\* this.renderers in insertion order
PassRenderers == <<"detection", "trajectory">>

PassWindows == {[startMs |-> 0, endMs |-> 0], [startMs |-> 0, endMs |-> MaxTime]}

\* What an annotation may carry as data: detections without data, without
\* bbox and with one; trajectories without data, without points, with an
\* empty points array and with waypoints.
PassData ==
    [detection |-> {EmptyObject,
                    [bbox |-> [x |-> 0, y |-> 0, width |-> 1, height |-> 1]]},
     trajectory |-> {EmptyObject,
                     [points |-> <<>>],
                     [points |-> <<[x |-> 0, y |-> 0, timeMs |-> 0],
                                   [x |-> 1, y |-> 1, timeMs |-> 2]>>]}]

PassAnnotations(category) ==
    UNION {WithField([timeRange |-> w], "data", PassData[category]) :
            w \in PassWindows}

PassLists(category, n) ==
    UNION {[1..k -> PassAnnotations(category)] : k \in 0..n}

\* BaseRenderer._isAnnotationVisible
isAnnotationVisible(annotation, currentTimeMs) ==
    /\ "timeRange" \in DOMAIN annotation
    /\ currentTimeMs >= annotation.timeRange.startMs
    /\ currentTimeMs <= annotation.timeRange.endMs

\* DetectionRenderer.render and TrajectoryRenderer.render as far as they
\* decide whether anything is drawn: reading a field of a missing data
\* object throws a TypeError, a missing bbox or missing points returns.
rendererRender(category, annotation, currentTimeMs) ==
    IF "data" \notin DOMAIN annotation THEN "threw"
    ELSE IF category = "detection"
    THEN IF "bbox" \notin DOMAIN annotation.data THEN "skipped" ELSE "drawn"
    ELSE IF \/ "points" \notin DOMAIN annotation.data
            \/ Len(annotation.data.points) = 0
         THEN "skipped"
         ELSE IF currentPosition(annotation.data.points, currentTimeMs,
                                 "linear") = NullPosition
              THEN "skipped" ELSE "drawn"

tryRenderUncaught(category, annotation, currentTimeMs) ==
    rendererRender(category, annotation, currentTimeMs)

\* try { this.render(annotation, ...) } catch (error) { console.error(...) }
tryRender(category, annotation, currentTimeMs) ==
    IF rendererRender(category, annotation, currentTimeMs) = "threw"
    THEN "caught"
    ELSE rendererRender(category, annotation, currentTimeMs)

\* The loop of renderAtTime over the visible annotations, from index i on:
\* the indices drawn, and whether an exception left the loop.
RECURSIVE renderVisible(_, _, _, _, _)
renderVisible(category, annotations, visible, currentTimeMs, i) ==
    IF i > Len(visible) THEN [drawn |-> {}, threw |-> FALSE]
    ELSE LET outcome == tryRender(category, annotations[visible[i]],
                                  currentTimeMs)
             rest == renderVisible(category, annotations, visible,
                                   currentTimeMs, i + 1)
         IN  IF outcome = "threw" THEN [drawn |-> {}, threw |-> TRUE]
             ELSE [drawn |-> rest.drawn \cup
                        (IF outcome = "drawn" THEN {visible[i]} ELSE {}),
                   threw |-> rest.threw]

\* BaseRenderer.renderAtTime on a renderer with this canvas and
\* _lastRenderTime: the canvas, _lastRenderTime and whether it threw.
renderAtTime(category, annotations, canvas, lastTime, currentTimeMs) ==
    IF currentTimeMs = lastTime
    THEN [canvas |-> canvas, lastRenderTime |-> lastTime, threw |-> FALSE]
    ELSE LET visible == SelectSeq(Indices(annotations), LAMBDA i :
                            isAnnotationVisible(annotations[i], currentTimeMs))
             loop == renderVisible(category, annotations, visible,
                                   currentTimeMs, 1)
         IN  [canvas |-> loop.drawn,
              lastRenderTime |-> IF loop.threw THEN lastTime
                                 ELSE currentTimeMs,
              threw |-> loop.threw]

\* VideoAnnotator.render: renderAtTime on every renderer in turn, from the
\* k-th on; an exception ends the loop.
RECURSIVE passRender(_, _, _, _, _)
passRender(annotations, canvas, lastTimes, currentTimeMs, k) ==
    IF k > Len(PassRenderers)
    THEN [canvas |-> canvas, lastRenderTime |-> lastTimes, threw |-> FALSE]
    ELSE LET c == PassRenderers[k]
             one == renderAtTime(c, annotations[c], canvas[c], lastTimes[c],
                                 currentTimeMs)
             canvas1 == [canvas EXCEPT ![c] = one.canvas]
             times1 == [lastTimes EXCEPT ![c] = one.lastRenderTime]
         IN  IF one.threw
             THEN [canvas |-> canvas1, lastRenderTime |-> times1,
                   threw |-> TRUE]
             ELSE passRender(annotations, canvas1, times1, currentTimeMs,
                             k + 1)

\* The coordinator with its two renderers after setAnnotations.
InitPass ==
    /\ AnnotatorIdle /\ RenderersIdle /\ ArchiveIdle /\ ManifestIdle
    /\ TrajectoryIdle /\ InertialIdle /\ StyleIdle /\ MoreIdle
    /\ \E d \in PassLists("detection", MaxDetections),
          t \in PassLists("trajectory", MaxTrajectories) :
            psAnnotations = [detection |-> d, trajectory |-> t]
    /\ psLastRenderTime = [detection |-> -1, trajectory |-> -1]
    /\ psCanvas = [detection |-> {}, trajectory |-> {}]
    /\ psLast = NoCall

\* annotator.render() with the video at time t
PsRender ==
    \E t \in Times :
        LET pass == passRender(psAnnotations, psCanvas, psLastRenderTime, t, 1)
        IN  /\ psCanvas' = pass.canvas
            /\ psLastRenderTime' = pass.lastRenderTime
            /\ psLast' = [op |-> "render", timeMs |-> t, threw |-> pass.threw]
            /\ UNCHANGED psAnnotations
            /\ UNCHANGED <<annotatorVars, rendererVars, archiveVars,
                           manifestVars, trajectoryVars, inertialVars,
                           styleVars, moreVars>>

NextPass == PsRender

SpecPass == InitPass /\ [][NextPass]_vars

\* ------------------------------------------------ the canvas across resizes
\* The listeners of the current coordinator with the canvas bitmap made
\* explicit.  Assigning canvas.width or canvas.height, as _resize does,
\* resets the bitmap to transparent black even when the value is unchanged.
BlankBitmap == [blank |-> TRUE]

\* What a render pass at time t leaves on the canvas: the visualizers whose
\* _draw ran, in order.
Painted(t, pass) == [blank |-> FALSE, time |-> t, drew |-> pass.drew]

\* The coordinators a constructor call that did not throw can produce.
SyncVisualizers ==
    {Constructor(TRUE, m, cats).visualizers :
        m \in MetadataSet,
        cats \in {c \in CategoryLists :
                    \A m2 \in MetadataSet : ~Constructor(TRUE, m2, c).threw}}

InitSync ==
    /\ AnnotatorIdle /\ RenderersIdle /\ ArchiveIdle /\ ManifestIdle
    /\ TrajectoryIdle /\ DrawingIdle /\ BesidesSyncIdle
    /\ syVisualizers \in SyncVisualizers
    /\ syVisible = TRUE
    /\ syLastRenderTime = -1
    /\ syCurrentTime = 0
    /\ syBitmap = BlankBitmap
    /\ syLast = NoCall

\* timeupdate: the listener runs _render while this.isVisible.
SyTimeUpdate ==
    \E t \in Times :
        LET r == OnTimeUpdate(syVisualizers, syLastRenderTime, t, syVisible, 0)
        IN  /\ syCurrentTime' = t
            /\ syLastRenderTime' = r.watermark
            /\ syBitmap' = IF r.cleared THEN Painted(t, r.pass) ELSE syBitmap
            /\ syLast' = [op |-> "timeupdate", visible |-> syVisible]
            /\ UNCHANGED <<syVisualizers, syVisible>>
            /\ UNCHANGED <<annotatorVars, rendererVars, archiveVars,
                           manifestVars, trajectoryVars, drawingVars, besidesSync>>

\* The ResizeObserver callback or loadedmetadata: _resize assigns
\* canvas.width and canvas.height.
SyResize ==
    \E event \in {"resize", "loadedmetadata"} :
        /\ syBitmap' = BlankBitmap
        /\ syLast' = [op |-> event, visible |-> syVisible]
        /\ UNCHANGED <<syVisualizers, syVisible, syLastRenderTime,
                       syCurrentTime>>
        /\ UNCHANGED <<annotatorVars, rendererVars, archiveVars, manifestVars,
                       trajectoryVars, drawingVars, besidesSync>>

\* annotator.isVisible = b
SySetVisible ==
    \E b \in BOOLEAN :
        /\ syVisible' = b
        /\ syLast' = [op |-> "setVisible", visible |-> b]
        /\ UNCHANGED <<syVisualizers, syLastRenderTime, syCurrentTime,
                       syBitmap>>
        /\ UNCHANGED <<annotatorVars, rendererVars, archiveVars, manifestVars,
                       trajectoryVars, drawingVars, besidesSync>>

NextSync == SyTimeUpdate \/ SyResize \/ SySetVisible

SpecSync == InitSync /\ [][NextSync]_vars

\* ----------------------------------------------- showing and hiding
\* show, hide, enableRenderer and disableRenderer of the multi-canvas
\* coordinator, with the renderers addAnnotation creates.  A renderer's
\* only visibility state is BaseRenderer._isVisible.
VisibilityCategories == {"detection", "text"}

\* BaseRenderer.show / BaseRenderer.hide on every renderer
setAllVisible(rs, visible) ==
    [c \in DOMAIN rs |-> [rs[c] EXCEPT !.isVisible = visible]]

\* BaseRenderer.show / BaseRenderer.hide on the renderer of one category,
\* when there is one
setOneVisible(rs, category, visible) ==
    IF category \in DOMAIN rs
    THEN [rs EXCEPT ![category].isVisible = visible] ELSE rs

\* The renderers whose renderAtTime gets past its visibility test in a
\* render() call of the coordinator.
participants(rs) == {c \in DOMAIN rs : rs[c].isVisible}

InitVisibility ==
    /\ AnnotatorIdle /\ RenderersIdle /\ ArchiveIdle /\ ManifestIdle
    /\ TrajectoryIdle /\ DrawingIdle /\ BesidesVisibilityIdle
    /\ vzVisible = FALSE
    /\ vzRenderers = NoRenderers
    /\ vzDisabled = {}
    /\ vzLast = NoCall

\* annotator.show()
VzShow ==
    /\ vzVisible' = TRUE
    /\ vzRenderers' = setAllVisible(vzRenderers, TRUE)
    /\ vzLast' = [op |-> "show", afterHide |-> vzLast.op = "hide"]
    /\ UNCHANGED vzDisabled
    /\ UNCHANGED <<annotatorVars, rendererVars, archiveVars, manifestVars,
                   trajectoryVars, drawingVars, besidesVisibility>>

\* annotator.hide()
VzHide ==
    /\ vzVisible' = FALSE
    /\ vzRenderers' = setAllVisible(vzRenderers, FALSE)
    /\ vzLast' = [op |-> "hide"]
    /\ UNCHANGED vzDisabled
    /\ UNCHANGED <<annotatorVars, rendererVars, archiveVars, manifestVars,
                   trajectoryVars, drawingVars, besidesVisibility>>

\* annotator.enableRenderer(category)
VzEnableRenderer ==
    \E c \in VisibilityCategories :
        /\ vzRenderers' = setOneVisible(vzRenderers, c, TRUE)
        /\ vzDisabled' = vzDisabled \ {c}
        /\ vzLast' = [op |-> "enableRenderer"]
        /\ UNCHANGED vzVisible
        /\ UNCHANGED <<annotatorVars, rendererVars, archiveVars, manifestVars,
                       trajectoryVars, drawingVars, besidesVisibility>>

\* annotator.disableRenderer(category)
VzDisableRenderer ==
    \E c \in VisibilityCategories :
        /\ vzRenderers' = setOneVisible(vzRenderers, c, FALSE)
        /\ vzDisabled' = IF c \in DOMAIN vzRenderers
                         THEN vzDisabled \cup {c} ELSE vzDisabled
        /\ vzLast' = [op |-> "disableRenderer"]
        /\ UNCHANGED vzVisible
        /\ UNCHANGED <<annotatorVars, rendererVars, archiveVars, manifestVars,
                       trajectoryVars, drawingVars, besidesVisibility>>

\* annotator.addAnnotation(annotation) or loadManifest with annotations of
\* a category: the renderer of the category is created if there is none.
VzAddAnnotation ==
    \E c \in VisibilityCategories :
        /\ vzRenderers' = RegisterFor(vzRenderers, c)
        /\ vzLast' = [op |-> "addAnnotation"]
        /\ UNCHANGED <<vzVisible, vzDisabled>>
        /\ UNCHANGED <<annotatorVars, rendererVars, archiveVars, manifestVars,
                       trajectoryVars, drawingVars, besidesVisibility>>

\* timeupdate: render() while the annotator is visible
VzTimeUpdate ==
    /\ vzLast' = [op |-> "timeupdate",
                  rendered |-> IF vzVisible THEN participants(vzRenderers)
                               ELSE {}]
    /\ UNCHANGED <<vzVisible, vzRenderers, vzDisabled>>
    /\ UNCHANGED <<annotatorVars, rendererVars, archiveVars, manifestVars,
                   trajectoryVars, drawingVars, besidesVisibility>>

NextVisibility ==
    \/ VzShow \/ VzHide \/ VzEnableRenderer \/ VzDisableRenderer
    \/ VzAddAnnotation \/ VzTimeUpdate

SpecVisibility == InitVisibility /\ [][NextVisibility]_vars

\* ------------------------------------------------- a renderer's canvas
\* BaseRenderer._createCanvas, _positionCanvas and resize.  The video's
\* on-screen box is any box up to MaxBox by MaxBox; its natural size is
\* unknown (0 by 0) until the metadata is loaded.
MaxBox == 3

Boxes == {<<w, h>> : w \in 1..MaxBox, h \in 1..MaxBox}
SourceSizes == {<<4, 2>>, <<2, 1>>}

\* _positionCanvas: canvas.width and canvas.height come from
\* video.getBoundingClientRect().
positionCanvas(naturalSize, box) == box

InitSizing ==
    /\ AnnotatorIdle /\ RenderersIdle /\ ArchiveIdle /\ ManifestIdle
    /\ TrajectoryIdle /\ DrawingIdle /\ BesidesSizingIdle
    /\ szNatural \in SourceSizes \cup {NoSize}
    /\ szDisplayed \in Boxes
    /\ szCanvas = NoSize
    /\ szLast = NoCall

\* new RendererClass(videoAnnotator): _createCanvas ends with
\* _positionCanvas
SzConstruct ==
    /\ szLast.op = "none"
    /\ szCanvas' = positionCanvas(szNatural, szDisplayed)
    /\ szLast' = [op |-> "construct"]
    /\ UNCHANGED <<szNatural, szDisplayed>>
    /\ UNCHANGED <<annotatorVars, rendererVars, archiveVars, manifestVars,
                   trajectoryVars, drawingVars, besidesSizing>>

\* renderer.resize()
SzResize ==
    /\ szLast.op # "none"
    /\ szCanvas' = positionCanvas(szNatural, szDisplayed)
    /\ szLast' = [op |-> "resize"]
    /\ UNCHANGED <<szNatural, szDisplayed>>
    /\ UNCHANGED <<annotatorVars, rendererVars, archiveVars, manifestVars,
                   trajectoryVars, drawingVars, besidesSizing>>

\* The page lays the video out in another box, or the video's metadata
\* arrives; the renderer is not told yet.
SzEnvironment ==
    /\ szLast.op # "none"
    /\ \/ \E box \in Boxes : szDisplayed' = box /\ UNCHANGED szNatural
       \/ \E n \in SourceSizes : szNatural' = n /\ UNCHANGED szDisplayed
    /\ szLast' = [op |-> "environment"]
    /\ UNCHANGED szCanvas
    /\ UNCHANGED <<annotatorVars, rendererVars, archiveVars, manifestVars,
                   trajectoryVars, drawingVars, besidesSizing>>

NextSizing == SzConstruct \/ SzResize \/ SzEnvironment

SpecSizing == InitSizing /\ [][NextSizing]_vars

\* ---------------------------------------- outward bounding boxes
\* OutwardBoundingBoxesVisualizer (extractData, _draw) and
\* OutwardBoundingBoxesRenderer (render) over the extractor's annotations.
\* A metadata object lists up to MaxStamps detection timestamps, each with
\* one detection of a drawn object class; a drawer's result is the set of
\* timestamps whose detections it drew.
MaxStamps == 2
recencyWindowMs == 300

DetectionStamps == {1000, 1100, 1400}
PtsStartTimes == {0, 1000, 1100}       \* 0: metadata.ptsStartTime is missing
VideoTimes == {0, 50, 100, 400, 401, 700, 701}

Latest(S) == CHOOSE x \in S : \A y \in S : x >= y

OutwardMetadata ==
    {[carBoxTrackerList |-> S, ptsStartTime |-> p] :
        S \in {T \in SUBSET DetectionStamps : Cardinality(T) <= MaxStamps},
        p \in PtsStartTimes}

\* The string OutwardBoundingBoxesVisualizer hands to super() first.
OutwardName == [string |-> "outward-bounding-boxes"]

\* OutwardBoundingBoxesVisualizer.extractData(metadata): null without
\* inference data or without any detection.
extractDetections(md) ==
    IF "carBoxTrackerList" \notin DOMAIN md THEN NullData
    ELSE IF md.carBoxTrackerList = {} THEN NullData
    ELSE [detectionsByTimestamp |-> md.carBoxTrackerList,
          videoStartTime |->
              IF md.ptsStartTime # 0 THEN md.ptsStartTime
              ELSE Min(md.carBoxTrackerList)]

\* BaseVisualizer's constructor on the first argument it is given.
OutwardBase(firstArg) ==
    [metadata |-> firstArg, data |-> extractDetections(firstArg),
     visible |-> TRUE]

\* new OutwardBoundingBoxesVisualizer(metadata):
\* super("outward-bounding-boxes", metadata)
OutwardBoundingBoxesVisualizer(md) == OutwardBase(OutwardName)

\* OutwardBoundingBoxesVisualizer._draw(ctx, epochTime, videoRect)
outwardDraw(data, epochTime) ==
    IF data = NullData THEN {}
    ELSE LET currentEpochTime == data.videoStartTime + epochTime
             candidateTimestamps ==
                 {ts \in data.detectionsByTimestamp :
                     /\ currentEpochTime - ts >= 0
                     /\ currentEpochTime - ts <= recencyWindowMs}
         IN  IF candidateTimestamps = {} THEN {}
             ELSE {Latest(candidateTimestamps)}

\* BaseVisualizer.display(ctx, epochTime, videoRect)
outwardDisplay(visualizer, epochTime) ==
    IF visualizer.data = NullData \/ ~visualizer.visible THEN {}
    ELSE outwardDraw(visualizer.data, epochTime)

\* outwardBoundingBoxesExtractor(metadata): one annotation per detection,
\* videoStartTime the earliest timestamp.
outwardBoundingBoxesExtractor(md) ==
    {[detectionTimestamp |-> ts,
      videoStartTime |-> Min(md.carBoxTrackerList)] :
        ts \in md.carBoxTrackerList}

\* OutwardBoundingBoxesRenderer.render(ctx, currentTimeMs, videoRect) over
\* this.annotations; every annotation carries the same videoStartTime, so
\* annotations[0] is any of them.
outwardRender(annotations, currentTimeMs) ==
    IF annotations = {} THEN {}
    ELSE LET first == CHOOSE a \in annotations : TRUE
             currentEpochTime == first.videoStartTime + currentTimeMs
             candidateAnnotations ==
                 {a \in annotations :
                     /\ currentEpochTime - a.detectionTimestamp > 0
                     /\ currentEpochTime - a.detectionTimestamp
                            <= recencyWindowMs}
         IN  IF candidateAnnotations = {} THEN {}
             ELSE {Latest({a.detectionTimestamp : a \in candidateAnnotations})}

InitBoxes ==
    /\ AnnotatorIdle /\ RenderersIdle /\ ArchiveIdle /\ ManifestIdle
    /\ TrajectoryIdle /\ DrawingIdle /\ BesidesBoxesIdle
    /\ BoxesIdle

\* The metadata of a video arrives: the visualizer is constructed and the
\* extractor fills the renderer's annotations.
BxLoad ==
    \E md \in OutwardMetadata :
        /\ bxMetadata' = md
        /\ bxVisualizer' = OutwardBoundingBoxesVisualizer(md)
        /\ bxAnnotations' = outwardBoundingBoxesExtractor(md)
        /\ bxLast' = [op |-> "load"]
        /\ UNCHANGED <<annotatorVars, rendererVars, archiveVars,
                       manifestVars, trajectoryVars, drawingVars,
                       besidesBoxes>>

\* visualizer.display(ctx, currentTimeMs, videoRect)
BxDisplay ==
    /\ bxLast.op # "none"
    /\ \E t \in VideoTimes :
        bxLast' = [op |-> "display", currentTimeMs |-> t,
                   drawn |-> outwardDisplay(bxVisualizer, t)]
    /\ UNCHANGED <<bxMetadata, bxVisualizer, bxAnnotations>>
    /\ UNCHANGED <<annotatorVars, rendererVars, archiveVars, manifestVars,
                   trajectoryVars, drawingVars, besidesBoxes>>

\* renderer.render(ctx, currentTimeMs, videoRect)
BxRender ==
    /\ bxLast.op # "none"
    /\ \E t \in VideoTimes :
        bxLast' = [op |-> "render", currentTimeMs |-> t,
                   drawn |-> outwardRender(bxAnnotations, t)]
    /\ UNCHANGED <<bxMetadata, bxVisualizer, bxAnnotations>>
    /\ UNCHANGED <<annotatorVars, rendererVars, archiveVars, manifestVars,
                   trajectoryVars, drawingVars, besidesBoxes>>

NextBoxes == BxLoad \/ BxDisplay \/ BxRender

SpecBoxes == InitBoxes /\ [][NextBoxes]_vars

\* ------------------------------------------------- the video recorder
\* VideoRecorder over the browser's MediaRecorder.  Every startRecording()
\* creates a MediaRecorder, numbered 1, 2, ... in order of creation; a chunk
\* is written as the number of the recorder that produced it.
\* recorder.stop() returns at once and the browser later runs one task that
\* fires the recorder's last dataavailable event and then its stop event; a
\* timer's callback runs at any later moment.
MaxSessions == 2        \* most recordings started
MaxChunks == 1          \* most chunks delivered while recorders are running

Durations == {0, 1}     \* startRecording(): 0 stands for no duration
ChunkSizes == {0, 1}    \* event.data.size of a last chunk: empty or not

\* this.mediaRecorder.ondataavailable
ondataavailable(chunks, id, size) ==
    IF size > 0 THEN Append(chunks, id) ELSE chunks

\* _handleRecordingComplete(): the downloads after it ran for the stop event
\* of recorder id; it builds the blob from this.recordedChunks, downloads
\* it and calls onRecordingStop, unless there is no chunk.
handleRecordingComplete(downloads, chunks, id) ==
    IF chunks = <<>> THEN downloads
    ELSE Append(downloads, [by |-> id, chunks |-> chunks])

\* mediaRecorder.stop(), with the onstop handler in place at that moment
stopRecorder(recorders, id, onstop) ==
    [recorders EXCEPT ![id] = [state |-> "stopping", onstop |-> onstop]]

InitRecorder ==
    /\ AnnotatorIdle /\ RenderersIdle /\ ArchiveIdle /\ ManifestIdle
    /\ TrajectoryIdle /\ DrawingIdle /\ BesidesRecorderIdle
    /\ RecorderIdle

\* recorder.startRecording(duration); it throws while isRecording
RcStartRecording ==
    /\ ~rcIsRecording
    /\ Len(rcRecorders) < MaxSessions
    /\ \E duration \in Durations :
        LET id == Len(rcRecorders) + 1
        IN  /\ rcRecordedChunks' = <<>>
            /\ rcRecorders' =
                   Append(rcRecorders,
                          [state |-> "recording",
                           onstop |-> "handleRecordingComplete"])
            /\ rcMediaRecorder' = id
            /\ rcIsRecording' = TRUE
            /\ rcTimers' = IF duration > 0 THEN rcTimers \cup {id}
                           ELSE rcTimers
            /\ rcLast' = [op |-> "startRecording", session |-> id]
    /\ UNCHANGED <<rcCancelled, rcDownloads>>
    /\ UNCHANGED <<annotatorVars, rendererVars, archiveVars, manifestVars,
                   trajectoryVars, drawingVars, besidesRecorder>>

\* recorder.stopRecording(); it throws when nothing is being recorded
RcStopRecording ==
    /\ rcIsRecording /\ rcMediaRecorder # 0
    /\ rcRecorders' = stopRecorder(rcRecorders, rcMediaRecorder,
                                   "stopRecording")
    /\ rcIsRecording' = FALSE
    /\ rcLast' = [op |-> "stopRecording", session |-> rcMediaRecorder]
    /\ UNCHANGED <<rcMediaRecorder, rcRecordedChunks, rcTimers, rcCancelled,
                   rcDownloads>>
    /\ UNCHANGED <<annotatorVars, rendererVars, archiveVars, manifestVars,
                   trajectoryVars, drawingVars, besidesRecorder>>

\* recorder.cancelRecording()
RcCancelRecording ==
    /\ rcIsRecording /\ rcMediaRecorder # 0
    /\ rcRecorders' =
           stopRecorder(rcRecorders, rcMediaRecorder,
                        rcRecorders[rcMediaRecorder].onstop)
    /\ rcIsRecording' = FALSE
    /\ rcRecordedChunks' = <<>>
    /\ rcCancelled' = rcCancelled \cup {rcMediaRecorder}
    /\ rcLast' = [op |-> "cancelRecording", session |-> rcMediaRecorder]
    /\ UNCHANGED <<rcMediaRecorder, rcTimers, rcDownloads>>
    /\ UNCHANGED <<annotatorVars, rendererVars, archiveVars, manifestVars,
                   trajectoryVars, drawingVars, besidesRecorder>>

\* The auto-stop timer armed by a startRecording(duration) expires.
RcTimer ==
    /\ \E armedBy \in rcTimers :
        /\ rcTimers' = rcTimers \ {armedBy}
        /\ rcLast' = [op |-> "timer", armedBy |-> armedBy,
                      stopped |-> IF rcIsRecording THEN rcMediaRecorder
                                  ELSE 0]
    /\ IF rcIsRecording
       THEN /\ rcRecorders' = stopRecorder(rcRecorders, rcMediaRecorder,
                                           "stopRecording")
            /\ rcIsRecording' = FALSE
       ELSE UNCHANGED <<rcRecorders, rcIsRecording>>
    /\ UNCHANGED <<rcMediaRecorder, rcRecordedChunks, rcCancelled,
                   rcDownloads>>
    /\ UNCHANGED <<annotatorVars, rendererVars, archiveVars, manifestVars,
                   trajectoryVars, drawingVars, besidesRecorder>>

\* A running recorder delivers a chunk (start(100)).
RcDataAvailable ==
    /\ Len(rcRecordedChunks) < MaxChunks
    /\ \E id \in DOMAIN rcRecorders :
        /\ rcRecorders[id].state = "recording"
        /\ rcRecordedChunks' = ondataavailable(rcRecordedChunks, id, 1)
        /\ rcLast' = [op |-> "dataavailable", session |-> id]
    /\ UNCHANGED <<rcIsRecording, rcMediaRecorder, rcRecorders, rcTimers,
                   rcCancelled, rcDownloads>>
    /\ UNCHANGED <<annotatorVars, rendererVars, archiveVars, manifestVars,
                   trajectoryVars, drawingVars, besidesRecorder>>

\* The task of a stopped recorder: its last dataavailable event, then its
\* stop event (either onstop handler runs _handleRecordingComplete).
RcStopped ==
    /\ \E id \in DOMAIN rcRecorders, size \in ChunkSizes :
        /\ rcRecorders[id].state = "stopping"
        /\ rcRecordedChunks' = ondataavailable(rcRecordedChunks, id, size)
        /\ rcDownloads' =
               handleRecordingComplete(
                   rcDownloads, ondataavailable(rcRecordedChunks, id, size),
                   id)
        /\ rcRecorders' = [rcRecorders EXCEPT ![id].state = "inactive"]
        /\ rcLast' = [op |-> "stop", session |-> id]
    /\ UNCHANGED <<rcIsRecording, rcMediaRecorder, rcTimers, rcCancelled>>
    /\ UNCHANGED <<annotatorVars, rendererVars, archiveVars, manifestVars,
                   trajectoryVars, drawingVars, besidesRecorder>>

NextRecorder ==
    \/ RcStartRecording \/ RcStopRecording \/ RcCancelRecording
    \/ RcTimer \/ RcDataAvailable \/ RcStopped

SpecRecorder == InitRecorder /\ [][NextRecorder]_vars

\* ------------------------------------------------------------- claims
Range(f) == {f[i] : i \in DOMAIN f}

\* A step in which the timeupdate listener handled a notification.
Notified == last'.tick # last.tick

\* The listener did nothing: no clearRect, no display call, same watermark.
NoOpStep ==
    /\ ~last'.cleared
    /\ last'.called = <<>>
    /\ last'.drew = <<>>
    /\ lastRenderTime' = lastRenderTime

\* C1: when two consecutive notifications report the same time while the
\* annotator is visible, the first (whose time differs from the watermark)
\* clears the canvas and calls display on every owned visualizer, and the
\* second is a no-op.
C1_SameTimeTwiceOnePass ==
    [][Notified /\ isVisible =>
         /\ (currentTime' # lastRenderTime =>
               /\ last'.cleared
               /\ last'.called = Indices(visualizers)
               /\ lastRenderTime' = currentTime')
         /\ (last.visible /\ currentTime' = currentTime => NoOpStep)]_vars

\* C2 as claimed: over any sequence of notifications there is at most one
\* render pass for each distinct reported time.
C2_OnePassPerDistinctTime ==
    [][Notified /\ last'.cleared => currentTime' \notin rendered]_vars

\* C2 as amended: a render pass is never for the time of the pass before it,
\* so a run of notifications reporting one time gets at most one pass.
C2_NoPassForSameTimeAsLastPass ==
    [][Notified /\ last'.cleared => currentTime' # lastPassTime]_vars

\* a visible notification was deduplicated against the pass before it
C2_Witness ==
    /\ last.visible /\ ~last.cleared
    /\ currentTime = lastPassTime
    /\ Cardinality(rendered) > 1

\* C3: when the draw call of one owned visualizer throws during a pass, the
\* error does not leave the per-frame loop and every visualizer after it in
\* insertion order is still invoked for that frame.
C3_ThrowDoesNotBlockOthers ==
    last.threw # 0 =>
        /\ ~last.propagated
        /\ \A i \in (last.threw + 1)..Len(visualizers) : i \in Range(last.called)

\* C4: after every handled geometry-change notification the canvas's internal
\* size is the video's natural size, whatever its on-screen size.
C4_CanvasIsNaturalSize == resized => canvasSize = natural

\* a 4x2 source displayed at 2x1 after a resize
C4_Witness ==
    /\ resized
    /\ natural = <<4, 2>> /\ displayed = <<2, 1>>
    /\ canvasSize = <<4, 2>>

\* C5: while the coordinator is hidden a notification clears and draws
\* nothing, a hidden visualizer is never drawn, and a change of visibility
\* leaves the owned visualizers and their data as they were.
C5_HiddenDrawsNothingKeepsState ==
    [][/\ (Notified /\ ~isVisible =>
             ~last'.cleared /\ last'.called = <<>> /\ last'.drew = <<>>)
       /\ (Notified =>
             \A i \in 1..Len(visualizers) :
                 ~visualizers[i].visible => i \notin Range(last'.drew))
       /\ (pc = "live" /\ (isVisible' # isVisible \/ visualizers' # visualizers)
             => /\ Len(visualizers') = Len(visualizers)
                /\ \A i \in 1..Len(visualizers) :
                     /\ visualizers'[i].cls = visualizers[i].cls
                     /\ visualizers'[i].data = visualizers[i].data
                     /\ visualizers'[i].metadata = visualizers[i].metadata)
      ]_vars

\* a pass called display on a hidden visualizer with valid data, without a draw
C5_Witness ==
    /\ last.cleared
    /\ \E i \in 1..Len(visualizers) :
         /\ ~visualizers[i].visible /\ isValid(visualizers[i])
         /\ i \in Range(last.called)
         /\ i \notin Range(last.drew)

\* C6: category names without a registered visualizer never make the
\* construction fail, leave only visualizers of registered categories in the
\* owned list, and never make a render pass throw.
C6_UnknownCategoriesHarmless ==
    /\ (ctx = "2d" => pc = "live")
    /\ \A i \in 1..Len(visualizers) :
         visualizers[i].cls \in Range(VISUALIZER_MAP)
    /\ (last.threw # 0 => IsVisualizer(visualizers[last.threw]))

\* C7: for a list of registered or plainly unknown category names, the
\* coordinator owns one visualizer per distinct registered category, no two
\* of the same class, and a pass calls them in list order.
C7_OneInstancePerCategoryInOrder ==
    (pc = "live" /\ \A c \in Range(visualizerCategories) :
                       c \notin DOMAIN ObjectPrototype) =>
        /\ Len(visualizers) =
             Cardinality(Range(visualizerCategories) \cap Registered)
        /\ \A i, j \in 1..Len(visualizers) :
             i # j => visualizers[i].cls # visualizers[j].cls
        /\ \A k \in 1..Len(last.called) : last.called[k] = k

\* C8: when getContext("2d") yields no context the constructor throws before
\* any visualizer is created and before anything is subscribed on the video.
C8_NoContextThrowsBeforeSetup ==
    ctx = "null" => pc = "failed" /\ visualizers = <<>> /\ listeners = {}

\* a construction that failed for want of a context
C8_Witness == ctx = "null" /\ pc = "failed"

\* C9: a renderer issues draw calls only for annotations of its list that
\* are active at currentTimeMs (startTimeMs <= t <= startTimeMs +
\* durationMs); with an empty list, or with no active annotation, a render
\* call issues no draw call at all.
C9_DrawsOnlyForActiveAnnotations ==
    rTimeMs # -1 =>
        \A k \in 1..Len(rDraws) :
            /\ rDraws[k].annotation \in 1..Len(rAnnotations)
            /\ rTimeMs >= rAnnotations[rDraws[k].annotation].startTimeMs
            /\ rTimeMs <= rAnnotations[rDraws[k].annotation].startTimeMs
                            + rAnnotations[rDraws[k].annotation].durationMs

\* A render call of the DSF renderer that drew for an active annotation and
\* skipped an inactive one.
C9_Witness ==
    /\ rCategory = "dsf" /\ rTimeMs # -1 /\ Len(rAnnotations) = 2
    /\ rDraws # <<>>
    /\ \E i \in 1..2 : \A k \in 1..Len(rDraws) : rDraws[k].annotation # i

\* C10: after loadManifest, addAnnotation, removeAnnotation or
\* clearAnnotations every annotation held by a renderer has that renderer's
\* category; a renderer never holds an annotation of another category.
C10_RendererHoldsOnlyOwnCategory ==
    manifest # "null" =>
        \A c \in DOMAIN renderers :
            \A k \in 1..Len(renderers[c].annotations) :
                renderers[c].annotations[k].category = c

\* A renderer holds an annotation while the manifest files an annotation of
\* another category under that renderer's key.
C10_Witness ==
    /\ manifest # "null"
    /\ \E c \in DOMAIN renderers :
        /\ renderers[c].annotations # <<>>
        /\ \E k \in 1..Len(ItemsAt(manifest, c)) :
                ItemsAt(manifest, c)[k].category # c

\* C11: a manifest handed to the coordinator is an immutable snapshot: the
\* object the caller passed to loadManifest holds the same categories and
\* the same annotations, in the same order, as at hand-over, whatever the
\* coordinator is asked to do afterwards.
C11_HandedOverManifestUnchanged ==
    handedOver # "none" => manifest = handedOver

\* A loaded manifest that the coordinator still holds as it was handed over,
\* with its annotations distributed to a renderer.
C11_Witness ==
    /\ handedOver # "none" /\ handedOver # <<>> /\ manifest = handedOver
    /\ \E c \in DOMAIN renderers : renderers[c].annotations # <<>>

RECURSIVE Stored(_)
Stored(items) ==
    IF items = <<>> THEN <<>> ELSE Head(items).anns \o Stored(Tail(items))

\* start(A) <= T <= start(A) + duration(A), both ends inclusive, for a time
\* range built as {startMs: start, endMs: start + duration}; a missing
\* startMs stands for 0 and a missing endMs for no end.
ActiveAt(a, T) ==
    /\ ("startMs" \in DOMAIN a.timeRange => a.timeRange.startMs <= T)
    /\ ("startMs" \notin DOMAIN a.timeRange => 0 <= T)
    /\ ("endMs" \in DOMAIN a.timeRange => T <= a.timeRange.endMs)

\* C12: an annotation of the manifest is in the set getItemsAtTime(T)
\* returns if and only if start <= T <= start + duration, both bounds
\* inclusive, and the set holds nothing else.
C12_ActiveIffInsideClosedWindow ==
    mfLast.op = "getItemsAtTime" =>
        LET stored == Stored(mfItems)
            T == mfLast.arg
        IN  /\ \A k \in 1..Len(stored) :
                (stored[k] \in Range(mfLast.result)) <=> ActiveAt(stored[k], T)
            /\ Range(mfLast.result) \subseteq Range(stored)
            /\ Len(mfLast.result) =
                 Cardinality({k \in 1..Len(stored) : ActiveAt(stored[k], T)})

\* A query exactly at the end of one stored annotation's window, which is
\* returned, while another stored annotation has already ended.
C12_Witness ==
    /\ mfLast.op = "getItemsAtTime"
    /\ \E a \in Range(Stored(mfItems)) :
        /\ DOMAIN a.timeRange = {"startMs", "endMs"}
        /\ a.timeRange.endMs = mfLast.arg
        /\ a.timeRange.startMs < mfLast.arg
        /\ a \in Range(mfLast.result)
    /\ \E b \in Range(Stored(mfItems)) : b \notin Range(mfLast.result)

\* C13: constructing an Annotation from data whose category is empty or
\* missing throws; addItem and the manifest constructor given such data
\* throw and leave the stored annotations as they were, so no stored
\* annotation ever lacks a category.
C13_NoCategoryThrowsAndAdmitsNothing ==
    [][/\ (/\ mfLast'.op \in {"addItem", "construct"}
           /\ Field(mfLast'.arg, "category", "") = "")
          => (mfLast'.threw # "" /\ mfItems' = mfItems)
       /\ \A a \in Range(Stored(mfItems')) : a.category # ""]_vars

\* addItem refused data with an id but no category on a manifest that
\* already stores annotations.
C13_Witness ==
    /\ mfLast.op = "addItem"
    /\ mfLast.threw = "Annotation must have a category"
    /\ mfItems # <<>>

SamePosition(p, q) ==
    /\ DOMAIN p = DOMAIN q
    /\ "den" \in DOMAIN p =>
        /\ p.xn * q.den = q.xn * p.den
        /\ p.yn * q.den = q.yn * p.den

FrameCurves == <<tjFrame.curves.history, tjFrame.curves.full,
                 tjFrame.curves.future>>

\* The control points (in fifths of a pixel) of a stroked segment; a
\* straight lineTo is the cubic whose control points are its two ends.
StrokedControlPoints(seg) ==
    IF seg.kind = "bezierCurveTo" THEN seg.cp
    ELSE [cp1x |-> 5 * TrajectoryVideoRect.width * tjPoints[seg.from].x,
          cp1y |-> 5 * TrajectoryVideoRect.height * tjPoints[seg.from].y,
          cp2x |-> 5 * TrajectoryVideoRect.width * tjPoints[seg.to].x,
          cp2y |-> 5 * TrajectoryVideoRect.height * tjPoints[seg.to].y]

\* The marker's control points, denormalized to pixels.
MarkerControlPointsInPixels ==
    [cp1x |-> TrajectoryVideoRect.width * tjFrame.marker.cp.cp1x,
     cp1y |-> TrajectoryVideoRect.height * tjFrame.marker.cp.cp1y,
     cp2x |-> TrajectoryVideoRect.width * tjFrame.marker.cp.cp2x,
     cp2y |-> TrajectoryVideoRect.height * tjFrame.marker.cp.cp2y]

\* C14: in bezier mode with at least 3 waypoints, every curve stroked in
\* the frame (full path, history, future) that strokes the segment the
\* marker's position was computed on strokes it with exactly the marker's
\* two control points.
C14_MarkerControlPointsMatchEveryCurve ==
    (tjFrame.rendered /\ tjFrame.marker.segment # 0) =>
        \A c \in 1..Len(FrameCurves) :
            \A k \in 1..Len(FrameCurves[c]) :
                LET seg == FrameCurves[c][k]
                IN  (/\ seg.from = tjFrame.marker.segment
                     /\ seg.to = tjFrame.marker.segment + 1)
                    => StrokedControlPoints(seg) = MarkerControlPointsInPixels

\* The full path alone does stroke the marker's segment with the marker's
\* control points.
C14_Witness ==
    /\ tjFrame.rendered /\ tjFrame.marker.segment # 0
    /\ tjFrame.marker.cp.cp2x # 5 * tjPoints[tjFrame.marker.segment + 1].x
    /\ \E k \in 1..Len(tjFrame.curves.full) :
        /\ tjFrame.curves.full[k].from = tjFrame.marker.segment
        /\ tjFrame.curves.full[k].cp = MarkerControlPointsInPixels

\* C15: with exactly two waypoints the frame produced in bezier mode, its
\* position and its stroked curves, is the one produced in linear mode.
C15_TwoWaypointsModeIndependent ==
    (tjFrame.rendered /\ Len(tjPoints) = 2 /\ tjInterpolation = "bezier") =>
        LET linear == trajectoryRender(tjPoints, tjTimeMs, "linear",
                                       TrajectoryVideoRect)
        IN  /\ SamePosition(tjFrame.position, linear.position)
            /\ tjFrame.curves = linear.curves

\* A two-waypoint trajectory rendered in bezier mode strictly between its
\* two distinct waypoints.
C15_Witness ==
    /\ tjFrame.rendered /\ Len(tjPoints) = 2 /\ tjInterpolation = "bezier"
    /\ tjPoints[1].timeMs < tjTimeMs /\ tjTimeMs < tjPoints[2].timeMs
    /\ tjPoints[1].x # tjPoints[2].x
    /\ tjFrame.position.den > 1

ExpectedLinear(i, T) ==
    LET a == tjPoints[i]
        b == tjPoints[i + 1]
    IN  IF b.timeMs = a.timeMs THEN [xn |-> a.x, yn |-> a.y, den |-> 1]
        ELSE [xn |-> a.x * (b.timeMs - a.timeMs) + (T - a.timeMs) * (b.x - a.x),
              yn |-> a.y * (b.timeMs - a.timeMs) + (T - a.timeMs) * (b.y - a.y),
              den |-> b.timeMs - a.timeMs]

Brackets(i, T) == tjPoints[i].timeMs <= T /\ T <= tjPoints[i + 1].timeMs

\* C17: in linear mode, for every pair of consecutive waypoints Pi, Pi+1
\* that brackets T, the position is Pi + t * (Pi+1 - Pi).
C17_LinearBlendForEveryBracketingPair ==
    (tjFrame.rendered /\ tjInterpolation = "linear") =>
        \A i \in 1..(Len(tjPoints) - 1) :
            Brackets(i, tjTimeMs) =>
                SamePosition(tjFrame.position, ExpectedLinear(i, tjTimeMs))

\* C17 as the code has it: in linear mode the position is
\* Pi + t * (Pi+1 - Pi) for the first pair of consecutive waypoints that
\* brackets T.
C17_LinearBlendForFirstBracketingPair ==
    (tjFrame.rendered /\ tjInterpolation = "linear") =>
        \A i \in 1..(Len(tjPoints) - 1) :
            (/\ Brackets(i, tjTimeMs)
             /\ \A j \in 1..(i - 1) : ~Brackets(j, tjTimeMs))
            => SamePosition(tjFrame.position, ExpectedLinear(i, tjTimeMs))

\* Waypoints (0,(0,0)), (1000,(1,0)), (2000,(1,1)) queried at 1500 ms give
\* (1, 0.5).
C17_Witness ==
    /\ tjFrame.rendered /\ tjInterpolation = "linear"
    /\ tjPoints = <<[x |-> 0, y |-> 0, timeMs |-> 0],
                    [x |-> 1, y |-> 0, timeMs |-> 2],
                    [x |-> 1, y |-> 1, timeMs |-> 4]>>
    /\ tjTimeMs = 3
    /\ tjFrame.position = [xn |-> 2, yn |-> 1, den |-> 2]

\* The real sensor series are absent: sensorMetaData is missing, is not an
\* array, or yields no parsable sample.
SeriesAbsent ==
    \/ "sensorMetaData" \notin DOMAIN ibMetadata
    \/ ~ibMetadata.sensorMetaData.isArray
    \/ \A i \in DOMAIN ibMetadata.sensorMetaData.entries :
            ~Parses(ibMetadata.sensorMetaData.entries[i])

\* C18: a display call on a visible inertial bar whose real series are
\* absent draws the panel with a synthetic waveform.
C18_AbsentSeriesDrawsSyntheticPanel ==
    (ibLast.op = "display" /\ ibLast.visible /\ SeriesAbsent) =>
        ibLast.drew.panel /\ ibLast.drew.curves = "synthetic"

\* A display call on a visible inertial bar built from an array of entries
\* none of which parses: nothing is drawn.
C18_Witness ==
    /\ ibLast.op = "display" /\ ibLast.visible /\ SeriesAbsent
    /\ "sensorMetaData" \in DOMAIN ibMetadata
    /\ ibMetadata.sensorMetaData.isArray
    /\ ibMetadata.sensorMetaData.entries # <<>>
    /\ ibLast.drew = NoDrawing

\* The renderer option behind a style key, "" when the key has only a
\* hard-coded fallback.
OptionFor(key) ==
    CASE key = "borderColor" -> "defaultBorderColor"
      [] key = "borderWidth" -> "defaultBorderWidth"
      [] key = "fillOpacity" -> "defaultFillOpacity"
      [] key = "lineColor" -> "defaultLineColor"
      [] key = "lineWidth" -> "defaultLineWidth"
      [] key = "strokeColor" -> "defaultStrokeColor"
      [] key = "opacity" -> "defaultOpacity"
      [] key = "showEndpoints" -> "defaultShowEndpoints"
      [] OTHER -> ""

\* C19: every style key the annotation supplies is drawn with the
\* annotation's value, whatever it is; a key it does not supply is drawn
\* with the renderer's option when the renderer has one.
C19_AnnotationStyleAlwaysWins ==
    stDrawn.op = "draw" =>
        \A key \in DOMAIN stDrawn.used :
            /\ key \in DOMAIN stStyle => stDrawn.used[key] = stStyle[key]
            /\ (key \notin DOMAIN stStyle /\ OptionFor(key) \in DOMAIN stOptions)
                => stDrawn.used[key] = stOptions[OptionFor(key)]

\* A detection whose style asks for fillOpacity 0 is filled with the
\* renderer's default opacity.
C19_Witness ==
    /\ stDrawn.op = "draw" /\ stRenderer = "detection"
    /\ "fillOpacity" \in DOMAIN stStyle /\ stStyle.fillOpacity = 0
    /\ stDrawn.used.fillOpacity = stOptions.defaultFillOpacity
    /\ stDrawn.filled

\* The annotation has the field its renderer requires.
HasRequiredField(category, annotation) ==
    /\ "data" \in DOMAIN annotation
    /\ IF category = "detection" THEN "bbox" \in DOMAIN annotation.data
       ELSE /\ "points" \in DOMAIN annotation.data
            /\ annotation.data.points # <<>>

ActiveInPass(annotation, T) ==
    annotation.timeRange.startMs <= T /\ T <= annotation.timeRange.endMs

\* C20: after a render pass every renderer's canvas shows exactly its
\* active annotations that have their required field, whatever the other
\* annotations lack, and no error has reached the caller.
C20_OnlyTheIncompleteAnnotationIsSkipped ==
    psLast.op = "render" =>
        /\ ~psLast.threw
        /\ \A c \in DOMAIN psAnnotations :
            psCanvas[c] =
                {i \in DOMAIN psAnnotations[c] :
                    /\ ActiveInPass(psAnnotations[c][i], psLast.timeMs)
                    /\ HasRequiredField(c, psAnnotations[c][i])}

\* A pass in which the detection renderer met an active annotation without
\* data before an active complete one, which it drew, and the trajectory
\* renderer drew its annotation.
C20_Witness ==
    /\ psLast.op = "render" /\ ~psLast.threw
    /\ Len(psAnnotations.detection) = 2
    /\ "data" \notin DOMAIN psAnnotations.detection[1]
    /\ ActiveInPass(psAnnotations.detection[1], psLast.timeMs)
    /\ psCanvas.detection = {2}
    /\ psCanvas.trajectory = {1}

\* C21: once a notification has been handled while the annotator is
\* visible, the canvas shows the annotations of the current time, also
\* when a resize has reset the bitmap since the last render pass and the
\* notification reports the time of the watermark.
C21_CanvasShowsCurrentTimeAfterResize ==
    (syLast.op = "timeupdate" /\ syLast.visible) =>
        syBitmap = Painted(syCurrentTime,
                           RenderLoop(syVisualizers, 1, 0, NoPass))

\* A notification for the watermark's time handled while visible, with
\* visualizers to draw, after which the canvas is blank.
C21_Witness ==
    /\ syLast.op = "timeupdate" /\ syLast.visible
    /\ syLastRenderTime = syCurrentTime
    /\ RenderLoop(syVisualizers, 1, 0, NoPass).drew # <<>>
    /\ syBitmap = BlankBitmap

\* C22: right after hide() followed by show() every renderer is enabled
\* exactly when the host had not disabled it.
C22_ShowRestoresEnabledSettings ==
    (vzLast.op = "show" /\ vzLast.afterHide) =>
        \A c \in DOMAIN vzRenderers :
            vzRenderers[c].isVisible = (c \notin vzDisabled)

\* show() after hide() with a renderer the host had disabled, which is now
\* visible.
C22_Witness ==
    /\ vzLast.op = "show" /\ vzLast.afterHide
    /\ \E c \in DOMAIN vzRenderers :
            c \in vzDisabled /\ vzRenderers[c].isVisible

\* C23: while the annotator is visible every renderer the host has not
\* disabled is visible, and took part in the render pass of the latest
\* notification.
C23_VisibleAnnotatorDrawsEveryEnabledRenderer ==
    vzVisible =>
        \A c \in DOMAIN vzRenderers \ vzDisabled :
            /\ vzRenderers[c].isVisible
            /\ vzLast.op = "timeupdate" => c \in vzLast.rendered

\* A notification while the annotator is visible that leaves out a
\* renderer the host never disabled.
C23_Witness ==
    /\ vzVisible /\ vzLast.op = "timeupdate" /\ vzDisabled = {}
    /\ \E c \in DOMAIN vzRenderers : c \notin vzLast.rendered

\* C24: every visualizer the coordinator created holds the coordinator's
\* metadata object and the data extracted from it; when that metadata has
\* what the visualizer's class needs, the visualizer is valid and its
\* display call draws while it is visible.
C24_VisualizersBuiltFromCoordinatorMetadata ==
    pc = "live" =>
        \A i \in 1..Len(visualizers) :
            IsVisualizer(visualizers[i]) =>
                LET v == visualizers[i]
                    data == ExtractData(v.cls, metadata)
                IN  /\ v.metadata = metadata
                    /\ v.data = data
                    /\ data # "null" =>
                        isValid(v) /\ (v.visible => displayDraws(v))

\* A coordinator whose metadata has the lane-calibration parameters and
\* whose DSF visualizer is invalid.
C24_Witness ==
    /\ pc = "live" /\ metadata.laneCalibrationParams
    /\ \E i \in 1..Len(visualizers) :
        /\ visualizers[i].cls = "DSFVisualizer"
        /\ ~isValid(visualizers[i])

\* C25: right after canvas creation and after every resize() the canvas's
\* internal size is the source video's natural pixel size.
C25_CanvasHasNaturalSize ==
    szLast.op \in {"construct", "resize"} => szCanvas = szNatural

\* A resize() with the video displayed at another size than its natural
\* one, after which the canvas has the on-screen size.
C25_Witness ==
    /\ szLast.op = "resize" /\ szNatural \in SourceSizes
    /\ szDisplayed # szNatural /\ szCanvas = szDisplayed

\* The stored annotations with another id than id, category by category in
\* their order, without the categories that have none.
RECURSIVE OthersOf(_, _)
OthersOf(items, id) ==
    IF items = <<>> THEN <<>>
    ELSE LET rest == SelectSeq(Head(items).anns, LAMBDA a : a.id # id)
         IN  (IF rest = <<>> THEN <<>>
              ELSE <<[key |-> Head(items).key, anns |-> rest]>>)
             \o OthersOf(Tail(items), id)

HoldsId(items, id) == \E a \in Range(Stored(items)) : a.id = id

\* C26: removeItem(id) returns true exactly when an annotation with that id
\* was stored; then none with that id is left, the others are stored as
\* before and no category is left empty; when it returns false the
\* manifest is unchanged.
C26_RemoveItemRemovesEveryMatch ==
    [][mfLast'.op = "removeItem" =>
        /\ mfLast'.result = HoldsId(mfItems, mfLast'.arg)
        /\ mfLast'.result =>
            /\ ~HoldsId(mfItems', mfLast'.arg)
            /\ mfItems' = OthersOf(mfItems, mfLast'.arg)
        /\ ~mfLast'.result => mfItems' = mfItems]_vars

\* removeItem returned true and an annotation with the removed id is still
\* stored, in another category.
C26_Witness ==
    /\ mfLast.op = "removeItem" /\ mfLast.result
    /\ HoldsId(mfItems, mfLast.arg)

\* The video start time the latest drawer works from: the visualizer's
\* comes from the metadata (ptsStartTime, else the earliest timestamp), the
\* renderer's from its annotations (the earliest timestamp).
BoxesStart ==
    IF bxLast.op = "display"
    THEN extractDetections(bxMetadata).videoStartTime
    ELSE Min(bxMetadata.carBoxTrackerList)

\* The detection timestamps at or before now and at most 300 ms old.
BoxesWindow ==
    IF bxMetadata.carBoxTrackerList = {} THEN {}
    ELSE {ts \in bxMetadata.carBoxTrackerList :
             /\ 0 <= BoxesStart + bxLast.currentTimeMs - ts
             /\ BoxesStart + bxLast.currentTimeMs - ts <= 300}

\* C27: at any playback time the outward-bounding-boxes drawer draws the
\* detections of exactly the most recent timestamp ts with
\* 0 <= now - ts <= 300, now = videoStartTime + currentTimeMs, and draws no
\* detection when there is no such timestamp.
C27_DrawsTheLatestStampWithin300Ms ==
    bxLast.op \in {"display", "render"} =>
        bxLast.drawn = IF BoxesWindow = {} THEN {} ELSE {Latest(BoxesWindow)}

\* A drawer ran at a time that has a detection timestamp in the window.
C27_Witness ==
    /\ bxLast.op \in {"display", "render"}
    /\ BoxesWindow # {}

\* C28: a session ended by cancelRecording() never triggers a download and
\* never invokes onRecordingStop, whenever its pending events arrive.
C28_CancelledSessionNeverDownloads ==
    \A i \in DOMAIN rcDownloads : rcDownloads[i].by \notin rcCancelled

\* The stop event of a cancelled session has been handled.
C28_Witness ==
    /\ rcLast.op = "stop"
    /\ rcLast.session \in rcCancelled

\* C29: the auto-stop timer armed by startRecording(duration) only ever
\* stops the session that armed it.
C29_TimerStopsOnlyItsOwnSession ==
    (rcLast.op = "timer" /\ rcLast.stopped # 0) =>
        rcLast.stopped = rcLast.armedBy

\* The timer of an earlier session expired while a later one was running.
C29_Witness ==
    /\ rcLast.op = "timer"
    /\ rcLast.armedBy < rcMediaRecorder

\* C30: a session's output holds only chunks of its own MediaRecorder: no
\* chunk of another recorder is in this.recordedChunks, and no completion
\* handler builds its blob from another session's chunks.
C30_OutputHoldsOnlyOwnChunks ==
    /\ \A i \in DOMAIN rcRecordedChunks :
           rcRecordedChunks[i] = rcMediaRecorder
    /\ \A i \in DOMAIN rcDownloads :
           \A j \in DOMAIN rcDownloads[i].chunks :
               rcDownloads[i].chunks[j] = rcDownloads[i].by

\* The stop event of an earlier recorder was handled after a later
\* recording had started.
C30_Witness ==
    /\ rcLast.op = "stop"
    /\ rcLast.session < rcMediaRecorder

====
